---- MODULE Spec2Model ----
(***************************************************************************)
(* Model of sdrconnect-scanner (src/sdrconnect-scanner.go): the scan       *)
(* execution engine.  Five specifications share this module:               *)
(*   PlanSpec - the LO span planner (getIFBandwidth, getLOSpans and the    *)
(*              frequency generator) applied to bounded inputs;            *)
(*   Spec     - the main scan flow (main, initScan, runScan and the        *)
(*              websocket session calls) interleaved with the keyboard     *)
(*              task and the receiver;                                     *)
(*   FairSpec - Spec with the progress the main goroutine and the read     *)
(*              deadlines guarantee;                                       *)
(*   UnitSpec - getIFBandwidth, detectSignal, showStats and the frequency  *)
(*              generator, each applied to bounded inputs;                 *)
(*   KeySpec  - getKeyPresses against one call of receiveMessages, with    *)
(*              the history of the keys pressed and the flags consumed.    *)
(***************************************************************************)
EXTENDS Integers, Sequences, FiniteSets, TLC

VARIABLES
    \* ---- planner specification ----
    planPhase,      \* "idle" | "input" | "done"
    planScan,       \* the Scan handed to getLOSpans
    planSettings,   \* sdrconnectSettings fields getLOSpans reads
    planSpans,      \* the value getLOSpans returned
    \* ---- function specification ----
    unitPhase,      \* "idle" | "input" | "run" | "done"
    unitFn,         \* the function called
    unitArg,        \* its arguments
    unitOut,        \* what it returned, printed or sent
    \* ---- main scan flow ----
    pc,             \* position of the main goroutine
    scanIdx,        \* idx of the main scan loop (1-based)
    planPos,        \* position of runScan in the scan's plan (1-based)
    propIdx,        \* position of getSdrconnectSettings in SettingsProperties
    sdrconnectSettings,
    receiveStats,
    scanLOSpans,    \* scan.LOSpans of every scan, << >> for nil
    userCommandTogglePause,
    userCommandNextScan,
    userCommandTerminate,
    kbRunning,      \* getKeyPresses has not left its loop
    keyHistory,     \* KeySpec: the keys pressed and the flags consumed so far
    \* ---- the session call in progress ----
    site,           \* which call of the flow is in progress
    sequencePattern, \* TRUE for regexp "^.*CV$", FALSE for nil
    sequence,       \* receiveMessages' sequence string (kept while a pattern
                    \* reads it; without one nothing reads it)
    paused,         \* receiveMessages' paused
    deadline,       \* read deadline of ws: "none" | "armed" | "expired"
    reqProperty,    \* property / value argument of the call
    reqValue,
    err,            \* what the call returned
    actualValue,
    changed,
    \* ---- observation ----
    sent,           \* the request the last step sent, NoMessage if none
    received,       \* the message the last step read, NoMessage if none
    readErr,        \* the error websocket.JSON.Receive returned in the last step
    report,         \* the tag showStats printed in the last step, "" if none
    callMessages,   \* messages received by the call in progress
    holding,        \* a pause toggle was consumed and not yet undone
    exitStatus      \* how main returned

planVars == <<planPhase, planScan, planSettings, planSpans>>

unitVars == <<unitPhase, unitFn, unitArg, unitOut>>

flagVars == <<userCommandTogglePause, userCommandNextScan, userCommandTerminate,
              kbRunning, keyHistory>>

callVars == <<site, sequencePattern, sequence, paused, deadline, reqProperty,
              reqValue, err, actualValue, changed>>

flowVars == <<pc, scanIdx, planPos, propIdx, sdrconnectSettings, receiveStats,
              scanLOSpans>>

obsVars == <<sent, received, readErr, report, callMessages, holding, exitStatus>>

mainVars == <<flowVars, flagVars, callVars, obsVars>>

vars == <<planVars, unitVars, mainVars>>

(***************************************************************************)
(* 32-bit unsigned arithmetic.  A uint32 is kept as two 16-bit limbs       *)
(* <<hi, lo>> so that a wrapped difference (close to 2^32) stays exact.    *)
(***************************************************************************)
Limb == 2^16

ToU32(n) == << n \div Limb, n % Limb >>

SubU32(a, b) ==
    LET lo     == a[2] - b[2]
        borrow == IF lo < 0 THEN 1 ELSE 0
        hi     == a[1] - b[1] - borrow
    IN  << (hi + Limb) % Limb, (lo + Limb) % Limb >>

\* df > uint64(m) for a uint64 df below 2^31 and a uint32 m in limbs
GtU32(df, m) ==
    \/ df \div Limb > m[1]
    \/ df \div Limb = m[1] /\ df % Limb > m[2]

Min2(a, b) == IF a < b THEN a ELSE b
Max2(a, b) == IF a > b THEN a ELSE b

(***************************************************************************)
(* getIFBandwidth                                                          *)
(***************************************************************************)
bandwidthskHz == << 200, 300, 600, 1536, 5000, 6000, 7000, 8000 >>

RECURSIVE IFBandwidthLoop(_, _, _)
IFBandwidthLoop(rate, i, prevBandwidth) ==
    IF i > Len(bandwidthskHz) THEN prevBandwidth * 1000
    ELSE IF rate < bandwidthskHz[i] THEN prevBandwidth * 1000
    ELSE IFBandwidthLoop(rate, i + 1, bandwidthskHz[i])

RECURSIVE FirstExceedingLoop(_, _)
FirstExceedingLoop(rate, i) ==
    IF i >= Len(bandwidthskHz) THEN bandwidthskHz[Len(bandwidthskHz)] * 1000
    ELSE IF rate < bandwidthskHz[i] THEN bandwidthskHz[i] * 1000
    ELSE FirstExceedingLoop(rate, i + 1)

getIFBandwidthFirstExceeding(sampleRate) ==
    FirstExceedingLoop(sampleRate \div 1000, 1)

getIFBandwidth(sampleRate) ==
    IFBandwidthLoop(sampleRate \div 1000, 1, bandwidthskHz[1])

(***************************************************************************)
(* getScanFrequenciesAndIndexes: the frequencies sent on the channel, in   *)
(* order (index i of the code is position i+1 here).                       *)
(***************************************************************************)
RECURSIVE RangeUp(_, _, _)
RangeUp(frequency, stop, step) ==
    IF frequency <= stop THEN << frequency >> \o RangeUp(frequency + step, stop, step)
    ELSE << >>

\* frequency -= step on a uint64: the caller keeps stop >= step, so the
\* subtraction that ends the loop does not wrap
RECURSIVE RangeDown(_, _, _)
RangeDown(frequency, stop, step) ==
    IF frequency >= stop THEN << frequency >> \o RangeDown(frequency - step, stop, step)
    ELSE << >>

\* A uint64 v is held as v when v < 2^63 and as v - 2^64 when it is not: the
\* frequencies and steps of the model are below 2^31, so every sum and
\* difference stays within 2^31 of 0 or of 2^64, + and - are those of the
\* integers, and only the comparison has to look at the wrap.
GeU64(a, b) ==
    IF (a < 0) = (b < 0) THEN a >= b ELSE a < 0

LeU64(a, b) == GeU64(b, a)

FrequencyAndIndex(frequency, index) == [frequency |-> frequency, index |-> index]

\* the loop of the generator goroutine, one iteration at a time: loop holds
\* its variables and the elements sent on the channel so far
GeneratorStart(scan) ==
    [frequency |-> IF scan.Step # 0 THEN scan.Start ELSE 0,
     index |-> 0, emitted |-> << >>]

GeneratorContinuesBelowStop(scan, loop) ==
    IF scan.Step > 0 THEN ~ GeU64(loop.frequency, scan.Stop)
    ELSE IF scan.Step < 0 THEN GeU64(loop.frequency, scan.Stop)
    ELSE loop.index < Len(scan.List)

GeneratorContinues(scan, loop) ==
    IF scan.Step > 0 THEN LeU64(loop.frequency, scan.Stop)
    ELSE IF scan.Step < 0 THEN GeU64(loop.frequency, scan.Stop)
    ELSE loop.index < Len(scan.List)

GeneratorEmit(scan, loop) ==
    IF scan.Step > 0
    THEN [frequency |-> loop.frequency + scan.Step,
          index |-> loop.index + 1,
          emitted |-> Append(loop.emitted,
                             FrequencyAndIndex(loop.frequency, loop.index))]
    ELSE IF scan.Step < 0
    THEN [frequency |-> loop.frequency - (-scan.Step),
          index |-> loop.index + 1,
          emitted |-> Append(loop.emitted,
                             FrequencyAndIndex(loop.frequency, loop.index))]
    ELSE [frequency |-> 0,
          index |-> loop.index + 1,
          emitted |-> Append(loop.emitted,
                             FrequencyAndIndex(scan.List[loop.index + 1], loop.index))]

getScanFrequenciesAndIndexes(scan) ==
    IF scan.Step > 0 THEN RangeUp(scan.Start, scan.Stop, scan.Step)
    ELSE IF scan.Step < 0 THEN RangeDown(scan.Start, scan.Stop, -scan.Step)
    ELSE scan.List

(***************************************************************************)
(* getLOSpans                                                              *)
(***************************************************************************)
AbsOffset(offset) == Max2(offset, -offset)

\* maxDf, a uint32 widened to uint64
MaxDf(scan, settings) ==
    SubU32(SubU32(ToU32(getIFBandwidth(settings.SampleRate)),
                  ToU32(settings.FilterBandwidth)),
           ToU32(AbsOffset(scan.LOOffset)))

LOSpanNoOffset(from, to, flo, offset) ==
    [from |-> from, to |-> to, frequency |-> flo]

LOSpanToExclusive(from, to, flo, offset) ==
    [from |-> from, to |-> to + 1, frequency |-> flo + offset]

LOSpan(from, to, flo, offset) == [from |-> from, to |-> to, frequency |-> flo + offset]

\* the loop's variables before the first frequency; fmin = MaxUint64 is kept
\* as -1 and replaced by the first frequency, as min(MaxUint64, freq) is
LOInit == [fmin |-> -1, fmax |-> 0, flo |-> 0, idxFrom |-> 0, idxTo |-> 0,
           loSpans |-> << >>]

\* a span is closed at every frequency after the first
LOStepClosesAlways(st, freq, idx, maxDf, offset) ==
    LET close == st.fmin # -1
    IN  [ fmin    |-> freq,
          fmax    |-> freq,
          flo     |-> freq,
          idxFrom |-> IF close THEN idx ELSE st.idxFrom,
          idxTo   |-> idx,
          loSpans |-> IF close
                      THEN Append(st.loSpans,
                                  LOSpan(st.idxFrom, st.idxTo, st.flo, offset))
                      ELSE st.loSpans ]

\* one iteration of the loop over the generated frequencies
LOStep(st, freq, idx, maxDf, offset) ==
    LET fmin  == IF st.fmin = -1 THEN freq ELSE Min2(st.fmin, freq)
        fmax  == Max2(st.fmax, freq)
        close == GtU32(fmax - fmin, maxDf)
        fmin2 == IF close THEN freq ELSE fmin
        fmax2 == IF close THEN freq ELSE fmax
    IN  [ fmin    |-> fmin2,
          fmax    |-> fmax2,
          flo     |-> (fmin2 + fmax2) \div 2,
          idxFrom |-> IF close THEN idx ELSE st.idxFrom,
          idxTo   |-> idx,
          loSpans |-> IF close
                      THEN Append(st.loSpans,
                                  LOSpan(st.idxFrom, st.idxTo, st.flo, offset))
                      ELSE st.loSpans ]

RECURSIVE LOLoop(_, _, _, _, _)
LOLoop(st, plan, i, maxDf, offset) ==
    IF i > Len(plan) THEN st
    ELSE LOLoop(LOStep(st, plan[i], i - 1, maxDf, offset), plan, i + 1, maxDf, offset)

getLOSpans(scan, settings) ==
    LET st == LOLoop(LOInit, getScanFrequenciesAndIndexes(scan), 1,
                     MaxDf(scan, settings), scan.LOOffset)
    IN  Append(st.loSpans, LOSpan(st.idxFrom, st.idxTo, st.flo, scan.LOOffset))

(***************************************************************************)
(* getScanFrequenciesAndLOFrequencies: for every plan position the         *)
(* frequency and the LO frequency sent with it (0 when the LO stays).      *)
(***************************************************************************)
\* every element carries the center of the span that holds its index
LOWalkEveryIndex(plan, loSpans, i, loIdx, nextLOIdx) ==
    [k \in 1..Len(plan) |->
        [frequency   |-> plan[k],
         loFrequency |-> (CHOOSE span \in { loSpans[n] : n \in 1..Len(loSpans) } :
                              span.from <= k - 1 /\ k - 1 <= span.to).frequency]]

RECURSIVE LOWalk(_, _, _, _, _)
LOWalk(plan, loSpans, i, loIdx, nextLOIdx) ==
    IF i > Len(plan) THEN << >>
    ELSE LET hit    == (i - 1 = nextLOIdx)
             loIdx2 == IF hit THEN loIdx + 1 ELSE loIdx
             next2  == IF ~hit THEN nextLOIdx
                       ELSE IF loIdx2 <= Len(loSpans) THEN loSpans[loIdx2].from
                       ELSE -1
         IN  << [frequency   |-> plan[i],
                 loFrequency |-> IF hit THEN loSpans[loIdx].frequency ELSE 0] >>
             \o LOWalk(plan, loSpans, i + 1, loIdx2, next2)

getScanFrequenciesAndLOFrequencies(scan, loSpans) ==
    LOWalk(getScanFrequenciesAndIndexes(scan), loSpans, 1, 1, loSpans[1].from)

(***************************************************************************)
(* detectSignal                                                            *)
(***************************************************************************)
RECURSIVE SeqMax(_)
SeqMax(s) == IF Len(s) = 1 THEN s[1] ELSE Max2(s[1], SeqMax(Tail(s)))

RECURSIVE SeqMin(_)
SeqMin(s) == IF Len(s) = 1 THEN s[1] ELSE Min2(s[1], SeqMin(Tail(s)))

\* the map the labels file fills; keys are frequencies and station identifiers
labels == (100000 :> "local") @@ (4660 :> "news")

\* fmt's %.1f of a sample: the samples of the model are whole dB, printed
\* with one zero decimal
Format1(x) == [whole |-> x, tenth |-> 0]

\* fmt's %04X of a uint16: four hexadecimal digits
Format04X(x) ==
    << x \div 4096, (x \div 256) % 16, (x \div 16) % 16, x % 16 >>

RECURSIVE Join(_, _)
Join(elems, sep) ==
    IF Len(elems) = 0 THEN << >>
    ELSE IF Len(elems) = 1 THEN elems
    ELSE << elems[1], sep >> \o Join(Tail(elems), sep)

Field(format, args) == [format |-> format, args |-> args]

\* the value of a metric is printed alone only when the window holds two
\* samples at most
StatFieldSingleAfterExclusion(single, range, samples) ==
    IF Len(samples) = 1
    THEN << Field(single, << Format1(samples[1]) >>) >>
    ELSE IF Len(samples) = 2
    THEN << Field(single, << Format1(samples[2]) >>) >>
    ELSE IF Len(samples) > 2
    THEN << Field(range, << Format1(SeqMin(Tail(samples))),
                            Format1(SeqMax(Tail(samples))) >>) >>
    ELSE << >>

StatField(single, range, samples) ==
    IF Len(samples) = 1
    THEN << Field(single, << Format1(samples[1]) >>) >>
    ELSE IF Len(samples) > 1
    THEN << Field(range, << Format1(SeqMin(Tail(samples))),
                            Format1(SeqMax(Tail(samples))) >>) >>
    ELSE << >>

\* the keys of rdsPIset
RDSPISet(rdsPI) == { rdsPI[i] : i \in 1..Len(rdsPI) }

\* the orders in which a range over rdsPIset can visit its keys
RDSPIOrders(rdsPI) ==
    { order \in [1..Cardinality(RDSPISet(rdsPI)) -> RDSPISet(rdsPI)] :
          \A i, j \in DOMAIN order : i # j => order[i] # order[j] }

RDSPIField(rdsPI, order) ==
    IF Len(rdsPI) = 0 THEN << >>
    ELSE IF Cardinality(RDSPISet(rdsPI)) = 1
    THEN << Field("RDS/PI=%04X", << Format04X(rdsPI[1]) >>) >>
    ELSE << Field("RDS/PI=[%s]",
                  Join([i \in DOMAIN order |-> Format04X(order[i])], " ")) >>

LabelField(key) ==
    IF key \in DOMAIN labels THEN << Field("l=%s", << labels[key] >>) >>
    ELSE << >>

\* the fields showStats joins with spaces and logs; order is the order in
\* which the range over rdsPIset visits the distinct station identifiers
showStats(what, freq, stats, order) ==
    (IF what # "" THEN << Field("%s", << what >>) >> ELSE << >>)
        \o << Field("f=%d", << freq >>) >>
        \o (IF Len(stats.rdsPI) > 0 THEN LabelField(stats.rdsPI[1]) ELSE << >>)
        \o LabelField(freq)
        \o StatField("pwr=%.1fdB", "pwr=[%.1fdB,%.1fdB]", stats.signalPower)
        \o StatField("snr=%.1fdB", "snr=[%.1f.dB,%.1fdB]", stats.signalSNR)
        \o RDSPIField(stats.rdsPI, order)
        \o (IF Len(stats.rdsPS) > 0
            THEN << Field("RDS/PS=%s", Join(stats.rdsPS, "|")) >>
            ELSE << >>)

StatMaxAll(samples) ==
    IF Len(samples) = 0 THEN -1000 ELSE SeqMax(samples)

StatMax(samples) ==
    IF Len(samples) = 0 THEN -1000
    ELSE IF Len(samples) = 1 THEN samples[1]
    ELSE SeqMax(Tail(samples))

detectSignal(scan, stats) ==
    \/ StatMax(stats.signalPower) >= scan.DetectPowerThreshold
    \/ StatMax(stats.signalSNR) >= scan.DetectSNRThreshold

(***************************************************************************)
(* The configuration: what readConfigFile returned.  The scans of the      *)
(* model leave demodulator, squelch and agc unset, so that initScan skips  *)
(* those properties.                                                       *)
(***************************************************************************)
Scans ==
    << [ Start |-> 0, Stop |-> 0, Step |-> 0,
         List |-> << 100000, 100100 >>,
         DeviceName |-> "RSPdx", DeviceSerial |-> "", Profile |-> "fm",
         DetectPowerThreshold |-> -70, DetectSNRThreshold |-> 5,
         ListenExtraTimeRDS |-> 1, LOOffset |-> 0,
         SampleRate |-> 600000, LNAStateSet |-> TRUE, LNAState |-> 3 ],
       [ Start |-> 500000, Stop |-> 600000, Step |-> 200000,
         List |-> << >>,
         DeviceName |-> "", DeviceSerial |-> "", Profile |-> "",
         DetectPowerThreshold |-> -70, DetectSNRThreshold |-> 5,
         ListenExtraTimeRDS |-> 0, LOOffset |-> 0,
         SampleRate |-> 0, LNAStateSet |-> FALSE, LNAState |-> 0 ] >>

NumScans == Len(Scans)

maxStats == 100

ErrUserCommandNextScan == "user command nextscan"
ErrUserCommandTerminate == "user command terminate"
ErrDeadlineExceeded == "i/o timeout"
ErrTransport == "transport error"
ErrMismatch == "error setting frequency"
NoError == "nil"

(***************************************************************************)
(* Messages.  The value of a property is the number its string denotes:    *)
(* the strings exchanged for the properties of the model are decimal       *)
(* integers, which strconv formats and parses back unchanged.  A device or *)
(* profile request carries the name as its value.                          *)
(***************************************************************************)
Message(eventType, property, value) ==
    [EventType |-> eventType, Property |-> property, Value |-> value]

NoMessage == Message("", "", 0)

\* the properties getSdrconnectSettings reads, in order
SettingsProperties ==
    << "device_sample_rate", "filter_bandwidth", "demodulator", "lna_state",
       "squelch_enable", "squelch_threshold", "agc_enable", "agc_threshold" >>

\* times each key is pressed in KeySpec
MaxKeys == 2

\* bounds of the receiver's traffic
MaxCallMessages == 2
MaxSamples == 1
MaxCountMessages == 3

OtherFrequency == 777

\* the values the receiver may announce for a property; the center and VFO
\* frequencies are the one the flow asked for (or last recorded) or another one
ChangedValues(property) ==
    CASE property = "device_sample_rate" -> { 600000 }
      [] property = "filter_bandwidth" -> { 300000 }
      [] property = "lna_state" -> { 2, 3 }
      [] property = "device_center_frequency" ->
            { OtherFrequency,
              IF reqProperty = "device_center_frequency" THEN reqValue
              ELSE sdrconnectSettings.DeviceCenterFrequency }
      [] property = "device_vfo_frequency" ->
            { OtherFrequency,
              IF reqProperty = "device_vfo_frequency" THEN reqValue
              ELSE sdrconnectSettings.DeviceVFOFrequency }
      [] property = "signal_power" -> { -80, -60 }
      [] property = "signal_snr" -> { 3 }
      [] property = "rds_pi" -> { 0, 4660 }
      [] property = "rds_ps" -> { 0, 1 }   \* 0: blank after TrimSpace
      [] OTHER -> { 0 }

\* the values the receiver may give in a get_property_response
ResponseValues(property) ==
    CASE property = "device_sample_rate" -> { 2000000 }
      [] property = "filter_bandwidth" -> { 0, 300000 }
      [] OTHER -> { 0 }

\* The receiver announces a center or VFO frequency after a request that sets
\* one, a sample rate or an LNA state in answer to the set request for it, and
\* streams bandwidth, signal and RDS notifications.  The statistics are cleared
\* right after the center frequency handshake, so samples are left out there.
ChangedProperties ==
    CASE pc # "recv" -> { reqProperty, "filter_bandwidth" }
      [] site = "setCenterFrequency" ->
            { "device_center_frequency", "device_vfo_frequency", "filter_bandwidth" }
      [] site = "detect" ->
            { "device_center_frequency", "device_vfo_frequency", "filter_bandwidth",
              "signal_power", "rds_pi" }
      [] OTHER -> { "filter_bandwidth", "signal_power", "rds_pi" }

ResponseProperties ==
    IF pc = "recv" THEN { "filter_bandwidth" } ELSE { reqProperty, "filter_bandwidth" }

\* the notifications and responses the receiver may send while the flow reads
Receivable ==
    UNION { { Message("property_changed", p, v) : v \in ChangedValues(p) } :
            p \in ChangedProperties }
    \cup
    UNION { { Message("get_property_response", p, v) : v \in ResponseValues(p) } :
            p \in ResponseProperties }

(***************************************************************************)
(* Session calls.  A call starts when its request has been sent and the    *)
(* read deadline is armed (SetReadDeadline(now + timeout)); it ends at     *)
(* pc = "ret" with err set and the deadline cleared by the deferred        *)
(* SetReadDeadline(time.Time{}).                                           *)
(***************************************************************************)
\* The history of the keys is kept in KeySpec only; elsewhere it stays off.
Keys == { "pause", "skip", "terminate" }

NoKeyHistory ==
    [on |-> FALSE, pressed |-> [key \in Keys |-> 0], consumed |-> [key \in Keys |-> 0]]

\* the keyboard task may read the key once more
KeyAllowed(key) == keyHistory.on => keyHistory.pressed[key] < MaxKeys

KeyPressed(key) ==
    IF keyHistory.on THEN [keyHistory EXCEPT !.pressed[key] = @ + 1] ELSE keyHistory

FlagConsumed(key) ==
    IF keyHistory.on THEN [keyHistory EXCEPT !.consumed[key] = @ + 1] ELSE keyHistory

Call(kind, s, pattern, property, value, request) ==
    /\ pc' = kind
    /\ site' = s
    /\ sequencePattern' = pattern
    /\ sequence' = << >>
    /\ paused' = FALSE
    /\ deadline' = "armed"
    /\ reqProperty' = property
    /\ reqValue' = value
    /\ err' = NoError
    /\ actualValue' = 0
    /\ changed' = FALSE
    /\ sent' = request
    /\ received' = NoMessage /\ readErr' = NoError
    /\ callMessages' = 0
    /\ UNCHANGED <<flagVars, holding, exitStatus>>

\* websocket.JSON.Send failed: the call returns the error at once
SendFailed(s, property, value) ==
    /\ pc' = "ret"
    /\ site' = s
    /\ sequencePattern' = FALSE
    /\ sequence' = << >>
    /\ paused' = FALSE
    /\ deadline' = "none"
    /\ reqProperty' = property
    /\ reqValue' = value
    /\ err' = ErrTransport
    /\ actualValue' = 0
    /\ changed' = FALSE
    /\ sent' = NoMessage
    /\ received' = NoMessage /\ readErr' = NoError
    /\ callMessages' = 0
    /\ UNCHANGED <<flagVars, holding, exitStatus>>

\* a request is sent and the call that follows it starts, or the send fails
SendAndCall(kind, s, pattern, property, value, request) ==
    \E sendOk \in BOOLEAN :
        IF sendOk THEN Call(kind, s, pattern, property, value, request)
        ELSE SendFailed(s, property, value)

\* the call in progress returns e
Return(e) ==
    /\ pc' = "ret"
    /\ err' = e
    /\ deadline' = "none"
    /\ sequence' = << >>
    /\ paused' = FALSE
    /\ UNCHANGED <<site, sequencePattern, reqProperty, reqValue>>

\* no session call is in progress: the arguments, locals and results of the
\* last one are out of scope
NoCall ==
    /\ site' = ""
    /\ sequencePattern' = FALSE
    /\ sequence' = << >>
    /\ paused' = FALSE
    /\ deadline' = "none"
    /\ reqProperty' = ""
    /\ reqValue' = 0
    /\ actualValue' = 0
    /\ changed' = FALSE
    /\ callMessages' = 0

\* a step of the flow outside the session calls
Goto(next) ==
    /\ pc' = next
    /\ err' = NoError
    /\ sent' = NoMessage
    /\ received' = NoMessage /\ readErr' = NoError
    /\ NoCall
    /\ UNCHANGED <<flagVars, holding, exitStatus>>

\* a function of the flow returns e to main
Leave(retpc, e) ==
    /\ pc' = retpc
    /\ err' = e
    /\ sent' = NoMessage
    /\ received' = NoMessage /\ readErr' = NoError
    /\ NoCall
    /\ UNCHANGED <<flagVars, holding, exitStatus>>

\* main returns (or log.Fatal ends the process): the keyboard task ends with it
Exit(status) ==
    /\ pc' = "exit"
    /\ exitStatus' = status
    /\ sent' = NoMessage
    /\ received' = NoMessage /\ readErr' = NoError
    /\ NoCall
    /\ UNCHANGED err
    /\ userCommandTogglePause' = FALSE
    /\ userCommandNextScan' = FALSE
    /\ userCommandTerminate' = FALSE
    /\ kbRunning' = FALSE
    /\ holding' = FALSE
    /\ UNCHANGED keyHistory

Running == exitStatus = "running"

(***************************************************************************)
(* getSdrconnectProperty                                                   *)
(***************************************************************************)
ResponseMatchesAnyProperty(message) ==
    message.EventType = "get_property_response"

\* the response the loop returns on
ResponseMatches(message) ==
    /\ message.EventType = "get_property_response"
    /\ message.Property = reqProperty

GetPropertyMessage ==
    /\ pc = "getprop" /\ Running
    /\ callMessages < MaxCallMessages
    /\ \E message \in Receivable :
        /\ received' = message
        /\ IF ResponseMatches(message)
           THEN /\ actualValue' = message.Value
                /\ Return(NoError)
           ELSE UNCHANGED <<pc, callVars>>
    /\ readErr' = NoError
    /\ callMessages' = callMessages + 1
    /\ sent' = NoMessage /\ report' = ""
    /\ UNCHANGED <<scanIdx, planPos, propIdx, sdrconnectSettings, receiveStats,
                   scanLOSpans, flagVars, changed, holding, exitStatus, planVars, unitVars>>

\* Receive returned os.ErrDeadlineExceeded: the error is returned wrapped
GetPropertyTimeout ==
    /\ pc = "getprop" /\ Running
    /\ Return(ErrDeadlineExceeded)
    /\ received' = NoMessage /\ readErr' = ErrDeadlineExceeded
    /\ sent' = NoMessage /\ report' = ""
    /\ UNCHANGED <<scanIdx, planPos, propIdx, sdrconnectSettings, receiveStats,
                   scanLOSpans, flagVars, actualValue, changed, callMessages,
                   holding, exitStatus, planVars, unitVars>>

\* Receive returned another error
GetPropertyError ==
    /\ pc = "getprop" /\ Running
    /\ Return(ErrTransport)
    /\ received' = NoMessage /\ readErr' = ErrTransport
    /\ sent' = NoMessage /\ report' = ""
    /\ UNCHANGED <<scanIdx, planPos, propIdx, sdrconnectSettings, receiveStats,
                   scanLOSpans, flagVars, actualValue, changed, callMessages,
                   holding, exitStatus, planVars, unitVars>>

(***************************************************************************)
(* setSdrconnectProperty                                                   *)
(***************************************************************************)
SetPropertyMessage ==
    /\ pc = "setprop" /\ Running
    /\ callMessages < MaxCallMessages
    /\ \E message \in Receivable :
        /\ received' = message
        /\ IF message.EventType = "property_changed"
              /\ message.Property = reqProperty
           THEN /\ actualValue' = message.Value
                /\ changed' = TRUE
                /\ Return(NoError)
           ELSE UNCHANGED <<pc, callVars>>
    /\ readErr' = NoError
    /\ callMessages' = callMessages + 1
    /\ sent' = NoMessage /\ report' = ""
    /\ UNCHANGED <<scanIdx, planPos, propIdx, sdrconnectSettings, receiveStats,
                   scanLOSpans, flagVars, holding, exitStatus, planVars, unitVars>>

SetPropertyTimeoutNoValue ==
    /\ pc = "setprop" /\ Running
    /\ Return(NoError)
    /\ received' = NoMessage /\ readErr' = ErrDeadlineExceeded
    /\ sent' = NoMessage /\ report' = ""
    /\ UNCHANGED <<scanIdx, planPos, propIdx, sdrconnectSettings, receiveStats,
                   scanLOSpans, flagVars, actualValue, changed, callMessages,
                   holding, exitStatus, planVars, unitVars>>

\* Receive returned os.ErrDeadlineExceeded: the timeout is ignored
SetPropertyTimeout ==
    /\ pc = "setprop" /\ Running
    /\ actualValue' = reqValue
    /\ Return(NoError)
    /\ received' = NoMessage /\ readErr' = ErrDeadlineExceeded
    /\ sent' = NoMessage /\ report' = ""
    /\ UNCHANGED <<scanIdx, planPos, propIdx, sdrconnectSettings, receiveStats,
                   scanLOSpans, flagVars, changed, callMessages, holding,
                   exitStatus, planVars, unitVars>>

\* Receive returned another error
SetPropertyError ==
    /\ pc = "setprop" /\ Running
    /\ Return(ErrTransport)
    /\ received' = NoMessage /\ readErr' = ErrTransport
    /\ sent' = NoMessage /\ report' = ""
    /\ UNCHANGED <<scanIdx, planPos, propIdx, sdrconnectSettings, receiveStats,
                   scanLOSpans, flagVars, actualValue, changed, callMessages,
                   holding, exitStatus, planVars, unitVars>>

(***************************************************************************)
(* receiveMessages                                                         *)
(***************************************************************************)
\* sequencePattern.MatchString(sequence) for "^.*CV$"
\* "C" is followed by "V" somewhere in the sequence, and the sequence ends
\* with that "V"
MatchStringSubsequence(seq) ==
    /\ Len(seq) >= 2
    /\ seq[Len(seq)] = "V"
    /\ \E i \in 1..(Len(seq) - 1) : seq[i] = "C"

MatchString(seq) ==
    /\ Len(seq) >= 2
    /\ seq[Len(seq) - 1] = "C"
    /\ seq[Len(seq)] = "V"

AppendStatUnbounded(list, value) == Append(list, value)

\* append bounded by the capacity of the list
AppendStat(list, value) ==
    IF Len(list) < maxStats THEN Append(list, value) ELSE list

\* the switch on message.Property: the settings, statistics and sequence after it
PropertyChanged(settings, stats, seq, message) ==
    LET p == message.Property
        v == message.Value
    IN  CASE p = "device_sample_rate" ->
               [settings |-> [settings EXCEPT !.SampleRate = v], stats |-> stats,
                sequence |-> Append(seq, "S")]
          [] p = "device_vfo_frequency" ->
               [settings |-> [settings EXCEPT !.DeviceVFOFrequency = v], stats |-> stats,
                sequence |-> Append(seq, "V")]
          [] p = "device_center_frequency" ->
               [settings |-> [settings EXCEPT !.DeviceCenterFrequency = v], stats |-> stats,
                sequence |-> Append(seq, "C")]
          [] p = "filter_bandwidth" ->
               [settings |-> [settings EXCEPT !.FilterBandwidth = v], stats |-> stats,
                sequence |-> Append(seq, "F")]
          [] p = "signal_power" ->
               [settings |-> settings,
                stats |-> [stats EXCEPT !.signalPower = AppendStat(@, v)],
                sequence |-> seq]
          [] p = "signal_snr" ->
               [settings |-> settings,
                stats |-> [stats EXCEPT !.signalSNR = AppendStat(@, v)],
                sequence |-> seq]
          [] p = "rds_pi" ->
               [settings |-> settings,
                stats |-> IF v # 0 THEN [stats EXCEPT !.rdsPI = AppendStat(@, v)]
                          ELSE stats,
                sequence |-> seq]
          [] p = "rds_ps" ->
               [settings |-> settings,
                stats |-> IF v # 0 THEN [stats EXCEPT !.rdsPS = AppendStat(@, v)]
                          ELSE stats,
                sequence |-> seq]
          [] p = "lna_state" ->
               [settings |-> [settings EXCEPT !.LNAState = v], stats |-> stats,
                sequence |-> seq]
          [] OTHER -> [settings |-> settings, stats |-> stats, sequence |-> seq]

\* the receiver's traffic is bounded: a sample arrives only while its list
\* holds fewer than MaxSamples samples
StatList(stats, property) ==
    CASE property = "signal_power" -> stats.signalPower
      [] property = "signal_snr" -> stats.signalSNR
      [] property = "rds_pi" -> stats.rdsPI
      [] property = "rds_ps" -> stats.rdsPS
      [] OTHER -> << >>

WithinBounds(message) ==
    message.EventType = "property_changed"
        => Len(StatList(receiveStats, message.Property)) < MaxSamples

TerminateObservedUnlessPaused == userCommandTerminate /\ ~paused

TerminateObservedAfterSkip == userCommandTerminate /\ ~userCommandNextScan

\* the first test of the user commands
TerminateObserved == userCommandTerminate

\* one iteration of the loop whose Receive returned a message.  The flags are
\* read and cleared here only, so a key pressed during the iteration has the
\* effect of one pressed before it.
ReceiveMessage ==
    /\ pc = "recv" /\ Running
    /\ callMessages < MaxCallMessages
    /\ receiveStats.countMessages < MaxCountMessages
    /\ \E message \in { m \in Receivable : WithinBounds(m) } :
        received' = message /\
        LET counted == [receiveStats EXCEPT !.countMessages = @ + 1]
            after   == IF message.EventType = "property_changed"
                       THEN PropertyChanged(sdrconnectSettings, counted, sequence, message)
                       ELSE [settings |-> sdrconnectSettings, stats |-> counted,
                             sequence |-> sequence]
            toggle  == userCommandTogglePause
        IN  IF TerminateObserved
            THEN /\ userCommandTerminate' = FALSE
                 /\ keyHistory' = FlagConsumed("terminate")
                 /\ Return(ErrUserCommandTerminate)
                 /\ receiveStats' = counted
                 /\ holding' = FALSE
                 /\ UNCHANGED <<sdrconnectSettings, userCommandNextScan,
                                userCommandTogglePause>>
            ELSE IF userCommandNextScan
            THEN /\ userCommandNextScan' = FALSE
                 /\ keyHistory' = FlagConsumed("skip")
                 /\ Return(ErrUserCommandNextScan)
                 /\ receiveStats' = counted
                 /\ holding' = FALSE
                 /\ UNCHANGED <<sdrconnectSettings, userCommandTerminate,
                                userCommandTogglePause>>
            ELSE /\ userCommandTogglePause' = FALSE
                 /\ keyHistory' = IF toggle THEN FlagConsumed("pause") ELSE keyHistory
                 /\ holding' = IF toggle THEN ~holding ELSE holding
                 /\ sdrconnectSettings' = after.settings
                 /\ receiveStats' = after.stats
                 /\ UNCHANGED <<userCommandTerminate, userCommandNextScan>>
                 /\ IF /\ message.EventType = "property_changed"
                       /\ sequencePattern
                       /\ MatchString(after.sequence)
                    THEN Return(NoError)
                    ELSE /\ sequence' = IF sequencePattern THEN after.sequence
                                        ELSE << >>
                         /\ paused' = IF toggle THEN ~paused ELSE paused
                         /\ deadline' = IF ~toggle THEN deadline
                                        ELSE IF ~paused THEN "none" ELSE "expired"
                         /\ UNCHANGED <<pc, site, sequencePattern, reqProperty,
                                        reqValue, err>>
    /\ readErr' = NoError
    /\ callMessages' = callMessages + 1
    /\ sent' = NoMessage /\ report' = ""
    /\ UNCHANGED <<scanIdx, planPos, propIdx, scanLOSpans, kbRunning, actualValue,
                   changed, exitStatus, planVars, unitVars>>

TimeoutIsSuccessAfterTwo == ~sequencePattern /\ receiveStats.countMessages > 1

TimeoutIsSuccessAlways == ~sequencePattern

\* the deadline error is dropped
TimeoutIsSuccess == ~sequencePattern /\ receiveStats.countMessages > 0

\* Receive returned os.ErrDeadlineExceeded
ReceiveTimeout ==
    /\ pc = "recv" /\ Running
    /\ deadline \in { "armed", "expired" }
    /\ IF TimeoutIsSuccess
       THEN Return(NoError)
       ELSE Return(ErrDeadlineExceeded)
    /\ received' = NoMessage /\ readErr' = ErrDeadlineExceeded
    /\ sent' = NoMessage /\ report' = ""
    /\ UNCHANGED <<scanIdx, planPos, propIdx, sdrconnectSettings, receiveStats,
                   scanLOSpans, flagVars, actualValue, changed, callMessages,
                   holding, exitStatus, planVars, unitVars>>

\* Receive returned another error
ReceiveError ==
    /\ pc = "recv" /\ Running
    /\ Return(ErrTransport)
    /\ received' = NoMessage /\ readErr' = ErrTransport
    /\ sent' = NoMessage /\ report' = ""
    /\ UNCHANGED <<scanIdx, planPos, propIdx, sdrconnectSettings, receiveStats,
                   scanLOSpans, flagVars, actualValue, changed, callMessages,
                   holding, exitStatus, planVars, unitVars>>

(***************************************************************************)
(* getKeyPresses                                                           *)
(***************************************************************************)
KeyTerminate ==
    /\ kbRunning /\ Running
    /\ KeyAllowed("terminate")
    /\ userCommandTerminate' = TRUE
    /\ keyHistory' = KeyPressed("terminate")
    /\ kbRunning' = FALSE
    /\ sent' = NoMessage /\ report' = ""
    /\ received' = NoMessage /\ readErr' = NoError
    /\ UNCHANGED <<flowVars, callVars, userCommandTogglePause, userCommandNextScan,
                   callMessages, holding, exitStatus, planVars, unitVars>>

KeySpace ==
    /\ kbRunning /\ Running
    /\ KeyAllowed("pause")
    /\ userCommandTogglePause' = TRUE
    /\ keyHistory' = KeyPressed("pause")
    /\ sent' = NoMessage /\ report' = ""
    /\ received' = NoMessage /\ readErr' = NoError
    /\ UNCHANGED <<flowVars, callVars, userCommandTerminate, userCommandNextScan,
                   kbRunning, callMessages, holding, exitStatus, planVars, unitVars>>

KeyNextScan ==
    /\ kbRunning /\ Running
    /\ KeyAllowed("skip")
    /\ userCommandNextScan' = TRUE
    /\ keyHistory' = KeyPressed("skip")
    /\ sent' = NoMessage /\ report' = ""
    /\ received' = NoMessage /\ readErr' = NoError
    /\ UNCHANGED <<flowVars, callVars, userCommandTerminate, userCommandTogglePause,
                   kbRunning, callMessages, holding, exitStatus, planVars, unitVars>>

(***************************************************************************)
(* main: getSdrconnectSettings, then the scan loop.  Every step of the     *)
(* flow ends in Call, SendAndCall, Goto, Leave or Exit, which set pc, the  *)
(* call's variables, sent, the flags and exitStatus.                       *)
(***************************************************************************)
GetSettingsNext ==
    /\ pc = "getSettings" /\ Running
    /\ IF propIdx <= Len(SettingsProperties)
       THEN SendAndCall("getprop", "getSettings", FALSE, SettingsProperties[propIdx], 0,
                        Message("get_property", SettingsProperties[propIdx], 0))
       ELSE Goto("initDevice")
    /\ report' = ""
    /\ UNCHANGED <<scanIdx, planPos, propIdx, sdrconnectSettings, receiveStats,
                   scanLOSpans, planVars, unitVars>>

\* a failed read is fatal (log.Fatal); the responses of the model parse, and
\* the values of the properties the scans of the model never set are not kept
RetGetSettings ==
    /\ pc = "ret" /\ site = "getSettings" /\ Running
    /\ IF err # NoError
       THEN /\ Exit("fatal")
            /\ UNCHANGED <<propIdx, sdrconnectSettings>>
       ELSE /\ Goto("getSettings")
            /\ propIdx' = propIdx + 1
            /\ sdrconnectSettings' =
                 CASE reqProperty = "device_sample_rate" ->
                        [sdrconnectSettings EXCEPT !.SampleRate = actualValue]
                   [] reqProperty = "filter_bandwidth" ->
                        [sdrconnectSettings EXCEPT !.FilterBandwidth = actualValue]
                   [] reqProperty = "lna_state" ->
                        [sdrconnectSettings EXCEPT !.LNAState = actualValue]
                   [] OTHER -> sdrconnectSettings
    /\ report' = ""
    /\ UNCHANGED <<scanIdx, planPos, receiveStats, scanLOSpans, planVars, unitVars>>

NextScanIdxSame == scanIdx

NextScanIdx == IF scanIdx < NumScans THEN scanIdx + 1 ELSE 1

\* the error handling of the scan loop after initScan (runScan follows a nil)
MainAfterInitScan ==
    /\ pc = "mainInitRet" /\ Running
    /\ IF err = ErrUserCommandTerminate
       THEN Exit("terminated") /\ UNCHANGED <<scanIdx, planPos>>
       ELSE IF err = ErrUserCommandNextScan
       THEN Goto("initDevice") /\ scanIdx' = NextScanIdx /\ planPos' = 0
       ELSE IF err # NoError
       THEN Exit("init scan error") /\ UNCHANGED <<scanIdx, planPos>>
       ELSE Goto("runScan") /\ planPos' = 1 /\ UNCHANGED scanIdx
    /\ report' = ""
    /\ UNCHANGED <<propIdx, sdrconnectSettings, receiveStats, scanLOSpans, planVars, unitVars>>

MainAfterRunScanSkipsFailedScan ==
    /\ pc = "mainRunRet" /\ Running
    /\ IF err = ErrUserCommandTerminate
       THEN Exit("terminated") /\ UNCHANGED <<scanIdx, planPos>>
       ELSE Goto("initDevice") /\ scanIdx' = NextScanIdx /\ planPos' = 0
    /\ report' = ""
    /\ UNCHANGED <<propIdx, sdrconnectSettings, receiveStats, scanLOSpans, planVars, unitVars>>

\* the error handling of the scan loop after runScan
MainAfterRunScan ==
    /\ pc = "mainRunRet" /\ Running
    /\ IF err = ErrUserCommandTerminate
       THEN Exit("terminated") /\ UNCHANGED <<scanIdx, planPos>>
       ELSE IF err = ErrUserCommandNextScan
       THEN Goto("initDevice") /\ scanIdx' = NextScanIdx /\ planPos' = 0
       ELSE IF err # NoError
       THEN Exit("scan error") /\ UNCHANGED <<scanIdx, planPos>>
       ELSE Goto("initDevice") /\ scanIdx' = NextScanIdx /\ planPos' = 0
    /\ report' = ""
    /\ UNCHANGED <<propIdx, sdrconnectSettings, receiveStats, scanLOSpans, planVars, unitVars>>

(***************************************************************************)
(* initScan                                                                *)
(***************************************************************************)
InitScanDevice ==
    /\ pc = "initDevice" /\ Running
    /\ LET scan == Scans[scanIdx]
       IN  IF scan.DeviceName # "" /\ scan.DeviceName # sdrconnectSettings.DeviceName
           THEN SendAndCall("recv", "selectDeviceByName", FALSE, "", 0,
                            Message("selected_device_name", "", scan.DeviceName))
           ELSE IF scan.DeviceName = "" /\ scan.DeviceSerial # ""
                   /\ scan.DeviceSerial # sdrconnectSettings.DeviceSerial
           THEN SendAndCall("recv", "selectDeviceBySerial", FALSE, "", 0,
                            Message("selected_device_serial", "", scan.DeviceSerial))
           ELSE Goto("initProfile")
    /\ report' = ""
    /\ UNCHANGED <<scanIdx, planPos, propIdx, sdrconnectSettings, receiveStats,
                   scanLOSpans, planVars, unitVars>>

RetSelectDevice ==
    /\ pc = "ret" /\ site \in { "selectDeviceByName", "selectDeviceBySerial" } /\ Running
    /\ IF err # NoError
       THEN Leave("mainInitRet", err) /\ UNCHANGED sdrconnectSettings
       ELSE /\ Goto("initProfile")
            /\ sdrconnectSettings' =
                 IF site = "selectDeviceByName"
                 THEN [sdrconnectSettings EXCEPT !.DeviceName = Scans[scanIdx].DeviceName]
                 ELSE [sdrconnectSettings EXCEPT !.DeviceSerial = Scans[scanIdx].DeviceSerial]
    /\ report' = ""
    /\ UNCHANGED <<scanIdx, planPos, propIdx, receiveStats, scanLOSpans, planVars, unitVars>>

InitScanProfile ==
    /\ pc = "initProfile" /\ Running
    /\ IF Scans[scanIdx].Profile # sdrconnectSettings.Profile
       THEN SendAndCall("recv", "applyProfile", FALSE, "", 0,
                        Message("apply_device_profile", "", Scans[scanIdx].Profile))
       ELSE Goto("initSampleRate")
    /\ report' = ""
    /\ UNCHANGED <<scanIdx, planPos, propIdx, sdrconnectSettings, receiveStats,
                   scanLOSpans, planVars, unitVars>>

RetApplyProfile ==
    /\ pc = "ret" /\ site = "applyProfile" /\ Running
    /\ IF err # NoError
       THEN Leave("mainInitRet", err) /\ UNCHANGED sdrconnectSettings
       ELSE /\ Goto("initSampleRate")
            /\ sdrconnectSettings' =
                 [sdrconnectSettings EXCEPT !.Profile = Scans[scanIdx].Profile]
    /\ report' = ""
    /\ UNCHANGED <<scanIdx, planPos, propIdx, receiveStats, scanLOSpans, planVars, unitVars>>

InitScanSampleRate ==
    /\ pc = "initSampleRate" /\ Running
    /\ LET scan == Scans[scanIdx]
       IN  IF scan.SampleRate # 0 /\ scan.SampleRate # sdrconnectSettings.SampleRate
           THEN SendAndCall("setprop", "setSampleRate", FALSE, "device_sample_rate",
                            scan.SampleRate,
                            Message("set_property", "device_sample_rate", scan.SampleRate))
           ELSE Goto("initLNAState")
    /\ report' = ""
    /\ UNCHANGED <<scanIdx, planPos, propIdx, sdrconnectSettings, receiveStats,
                   scanLOSpans, planVars, unitVars>>

RetSetSampleRate ==
    /\ pc = "ret" /\ site = "setSampleRate" /\ Running
    /\ IF err # NoError
       THEN Leave("mainInitRet", err) /\ UNCHANGED sdrconnectSettings
       ELSE /\ Goto("initLNAState")
            /\ sdrconnectSettings' = [sdrconnectSettings EXCEPT !.SampleRate = actualValue]
    /\ report' = ""
    /\ UNCHANGED <<scanIdx, planPos, propIdx, receiveStats, scanLOSpans, planVars, unitVars>>

InitScanLNAState ==
    /\ pc = "initLNAState" /\ Running
    /\ LET scan == Scans[scanIdx]
       IN  IF scan.LNAStateSet /\ scan.LNAState # sdrconnectSettings.LNAState
           THEN SendAndCall("setprop", "setLNAState", FALSE, "lna_state", scan.LNAState,
                            Message("set_property", "lna_state", scan.LNAState))
           ELSE Goto("initSampleRateKnown")
    /\ report' = ""
    /\ UNCHANGED <<scanIdx, planPos, propIdx, sdrconnectSettings, receiveStats,
                   scanLOSpans, planVars, unitVars>>

RetSetLNAState ==
    /\ pc = "ret" /\ site = "setLNAState" /\ Running
    /\ IF err # NoError
       THEN Leave("mainInitRet", err) /\ UNCHANGED sdrconnectSettings
       ELSE /\ Goto("initSampleRateKnown")
            /\ sdrconnectSettings' =
                 [sdrconnectSettings EXCEPT !.LNAState = Scans[scanIdx].LNAState]
    /\ report' = ""
    /\ UNCHANGED <<scanIdx, planPos, propIdx, receiveStats, scanLOSpans, planVars, unitVars>>

\* make sure we know the current sample rate
InitScanSampleRateKnown ==
    /\ pc = "initSampleRateKnown" /\ Running
    /\ IF sdrconnectSettings.SampleRate = 0
       THEN SendAndCall("getprop", "getSampleRate", FALSE, "device_sample_rate", 0,
                        Message("get_property", "device_sample_rate", 0))
       ELSE Goto("initFilterBandwidthKnown")
    /\ report' = ""
    /\ UNCHANGED <<scanIdx, planPos, propIdx, sdrconnectSettings, receiveStats,
                   scanLOSpans, planVars, unitVars>>

\* make sure we know the current filter bandwidth
InitScanFilterBandwidthKnown ==
    /\ pc = "initFilterBandwidthKnown" /\ Running
    /\ IF sdrconnectSettings.FilterBandwidth = 0
       THEN SendAndCall("getprop", "getFilterBandwidth", FALSE, "filter_bandwidth", 0,
                        Message("get_property", "filter_bandwidth", 0))
       ELSE Goto("initLOSpans")
    /\ report' = ""
    /\ UNCHANGED <<scanIdx, planPos, propIdx, sdrconnectSettings, receiveStats,
                   scanLOSpans, planVars, unitVars>>

RetGetKnown ==
    /\ pc = "ret" /\ site \in { "getSampleRate", "getFilterBandwidth" } /\ Running
    /\ IF err # NoError
       THEN Leave("mainInitRet", err) /\ UNCHANGED sdrconnectSettings
       ELSE IF site = "getSampleRate"
       THEN /\ Goto("initFilterBandwidthKnown")
            /\ sdrconnectSettings' = [sdrconnectSettings EXCEPT !.SampleRate = actualValue]
       ELSE /\ Goto("initLOSpans")
            /\ sdrconnectSettings' =
                 [sdrconnectSettings EXCEPT !.FilterBandwidth = actualValue]
    /\ report' = ""
    /\ UNCHANGED <<scanIdx, planPos, propIdx, receiveStats, scanLOSpans, planVars, unitVars>>

InitScanLOSpans ==
    /\ pc = "initLOSpans" /\ Running
    /\ scanLOSpans' =
         IF scanLOSpans[scanIdx] = << >>
         THEN [scanLOSpans EXCEPT
                 ![scanIdx] = getLOSpans(Scans[scanIdx], sdrconnectSettings)]
         ELSE scanLOSpans
    /\ Leave("mainInitRet", NoError)
    /\ report' = ""
    /\ UNCHANGED <<scanIdx, planPos, propIdx, sdrconnectSettings, receiveStats,
                   planVars, unitVars>>

(***************************************************************************)
(* runScan                                                                 *)
(***************************************************************************)
CurrentPlan == getScanFrequenciesAndLOFrequencies(Scans[scanIdx], scanLOSpans[scanIdx])

ClearedStats ==
    [countMessages |-> 0, signalPower |-> << >>, signalSNR |-> << >>,
     rdsPI |-> << >>, rdsPS |-> << >>]

\* the VFO is set over the statistics of the frequency before
SetVFOWithoutClear ==
    /\ UNCHANGED receiveStats
    /\ SendAndCall("recv", "detect", FALSE, "device_vfo_frequency",
                   CurrentPlan[planPos].frequency,
                   Message("set_property", "device_vfo_frequency",
                           CurrentPlan[planPos].frequency))

\* clear receive stats, then setVFOFrequencyAndGetSignalStats up to its first read
ClearAndSetVFO ==
    /\ receiveStats' = ClearedStats
    /\ SendAndCall("recv", "detect", FALSE, "device_vfo_frequency",
                   CurrentPlan[planPos].frequency,
                   Message("set_property", "device_vfo_frequency",
                           CurrentPlan[planPos].frequency))

\* the next value of the range loop: the plan is exhausted, or the LO is
\* retuned (setCenterFrequency up to its first read), or the VFO is set
RunScanNext ==
    /\ pc = "runScan" /\ Running
    /\ IF planPos > Len(CurrentPlan)
       THEN Leave("mainRunRet", NoError) /\ UNCHANGED receiveStats
       ELSE LET loFreq == CurrentPlan[planPos].loFrequency
            IN  IF loFreq # 0 /\ loFreq # sdrconnectSettings.DeviceCenterFrequency
                THEN /\ SendAndCall("recv", "setCenterFrequency", TRUE,
                                    "device_center_frequency", loFreq,
                                    Message("set_property", "device_center_frequency",
                                            loFreq))
                     /\ UNCHANGED receiveStats
                ELSE ClearAndSetVFO
    /\ report' = ""
    /\ UNCHANGED <<scanIdx, planPos, propIdx, sdrconnectSettings, scanLOSpans, planVars, unitVars>>

\* the recorded center frequency is compared before the drain's result
RetSetCenterFrequencyComparesFirst ==
    /\ pc = "ret" /\ site = "setCenterFrequency" /\ Running
    /\ IF sdrconnectSettings.DeviceCenterFrequency # reqValue
       THEN Leave("mainRunRet", ErrMismatch) /\ UNCHANGED receiveStats
       ELSE IF err # NoError
       THEN Leave("mainRunRet", err) /\ UNCHANGED receiveStats
       ELSE ClearAndSetVFO
    /\ report' = ""
    /\ UNCHANGED <<scanIdx, planPos, propIdx, sdrconnectSettings, scanLOSpans, planVars, unitVars>>

RetSetCenterFrequency ==
    /\ pc = "ret" /\ site = "setCenterFrequency" /\ Running
    /\ IF err # NoError
       THEN Leave("mainRunRet", err) /\ UNCHANGED receiveStats
       ELSE IF sdrconnectSettings.DeviceCenterFrequency # reqValue
       THEN Leave("mainRunRet", ErrMismatch) /\ UNCHANGED receiveStats
       ELSE ClearAndSetVFO
    /\ report' = ""
    /\ UNCHANGED <<scanIdx, planPos, propIdx, sdrconnectSettings, scanLOSpans, planVars, unitVars>>

\* the detection is decided whatever VFO frequency was recorded
RetDetectIgnoresMismatch ==
    /\ pc = "ret" /\ site = "detect" /\ Running
    /\ IF err # NoError
       THEN Leave("mainRunRet", err) /\ report' = "" /\ UNCHANGED planPos
       ELSE IF detectSignal(Scans[scanIdx], receiveStats)
       THEN /\ report' = "detect"
            /\ Call("recv", "listen", FALSE, "", 0, NoMessage)
            /\ UNCHANGED planPos
       ELSE /\ Goto("runScan")
            /\ planPos' = planPos + 1
            /\ report' = ""
    /\ UNCHANGED <<scanIdx, propIdx, sdrconnectSettings, receiveStats, scanLOSpans,
                   planVars, unitVars>>

\* setVFOFrequencyAndGetSignalStats after its drain, then detectSignal
RetDetect ==
    /\ pc = "ret" /\ site = "detect" /\ Running
    /\ IF err # NoError
       THEN Leave("mainRunRet", err) /\ report' = "" /\ UNCHANGED planPos
       ELSE IF sdrconnectSettings.DeviceVFOFrequency # reqValue
       THEN Leave("mainRunRet", ErrMismatch) /\ report' = "" /\ UNCHANGED planPos
       ELSE IF detectSignal(Scans[scanIdx], receiveStats)
       THEN /\ report' = "detect"
            /\ Call("recv", "listen", FALSE, "", 0, NoMessage)
            /\ UNCHANGED planPos
       ELSE /\ Goto("runScan")
            /\ planPos' = planPos + 1
            /\ report' = ""
    /\ UNCHANGED <<scanIdx, propIdx, sdrconnectSettings, receiveStats, scanLOSpans,
                   planVars, unitVars>>

\* the extended listen is taken whether or not a station identifier was decoded
RetListenAlwaysExtends ==
    /\ pc = "ret" /\ site = "listen" /\ Running
    /\ IF err # NoError
       THEN Leave("mainRunRet", err) /\ report' = "" /\ UNCHANGED planPos
       ELSE IF Scans[scanIdx].ListenExtraTimeRDS > 0
       THEN /\ Call("recv", "listenRDS", FALSE, "", 0, NoMessage)
            /\ report' = ""
            /\ UNCHANGED planPos
       ELSE /\ Goto("runScan")
            /\ planPos' = planPos + 1
            /\ report' = "listen"
    /\ UNCHANGED <<scanIdx, propIdx, sdrconnectSettings, receiveStats, scanLOSpans,
                   planVars, unitVars>>

RetListen ==
    /\ pc = "ret" /\ site = "listen" /\ Running
    /\ IF err # NoError
       THEN Leave("mainRunRet", err) /\ report' = "" /\ UNCHANGED planPos
       ELSE IF Len(receiveStats.rdsPI) > 0 /\ Scans[scanIdx].ListenExtraTimeRDS > 0
       THEN /\ Call("recv", "listenRDS", FALSE, "", 0, NoMessage)
            /\ report' = ""
            /\ UNCHANGED planPos
       ELSE /\ Goto("runScan")
            /\ planPos' = planPos + 1
            /\ report' = "listen"
    /\ UNCHANGED <<scanIdx, propIdx, sdrconnectSettings, receiveStats, scanLOSpans,
                   planVars, unitVars>>

RetListenRDS ==
    /\ pc = "ret" /\ site = "listenRDS" /\ Running
    /\ IF err # NoError
       THEN Leave("mainRunRet", err) /\ report' = "" /\ UNCHANGED planPos
       ELSE /\ Goto("runScan")
            /\ planPos' = planPos + 1
            /\ report' = "listen"
    /\ UNCHANGED <<scanIdx, propIdx, sdrconnectSettings, receiveStats, scanLOSpans,
                   planVars, unitVars>>

(***************************************************************************)
(* The main specification                                                  *)
(***************************************************************************)
\* no function is under test
UnitIdle ==
    /\ unitPhase = "idle"
    /\ unitFn = ""
    /\ unitArg = 0
    /\ unitOut = 0

PlanIdle ==
    /\ planPhase = "idle"
    /\ planScan = Scans[1]
    /\ planSettings = [SampleRate |-> 0, FilterBandwidth |-> 0]
    /\ planSpans = << >>

\* main has read the configuration, opened the socket and the keyboard and
\* started getKeyPresses
MainInit ==
    /\ pc = "getSettings"
    /\ scanIdx = 1
    /\ planPos = 0
    /\ propIdx = 1
    /\ sdrconnectSettings =
         [DeviceName |-> "", DeviceSerial |-> "", Profile |-> "", SampleRate |-> 0,
          FilterBandwidth |-> 0, DeviceCenterFrequency |-> 0,
          DeviceVFOFrequency |-> 0, LNAState |-> 0]
    /\ receiveStats = ClearedStats
    /\ scanLOSpans = [i \in 1..NumScans |-> << >>]
    /\ userCommandTogglePause = FALSE
    /\ userCommandNextScan = FALSE
    /\ userCommandTerminate = FALSE
    /\ kbRunning = TRUE
    /\ keyHistory = NoKeyHistory
    /\ site = ""
    /\ sequencePattern = FALSE
    /\ sequence = << >>
    /\ paused = FALSE
    /\ deadline = "none"
    /\ reqProperty = ""
    /\ reqValue = 0
    /\ err = NoError
    /\ actualValue = 0
    /\ changed = FALSE
    /\ sent = NoMessage
    /\ received = NoMessage
    /\ readErr = NoError
    /\ report = ""
    /\ callMessages = 0
    /\ holding = FALSE
    /\ exitStatus = "running"

Init == MainInit /\ PlanIdle /\ UnitIdle

Keyboard == KeyTerminate \/ KeySpace \/ KeyNextScan

Session ==
    \/ GetPropertyMessage \/ GetPropertyTimeout \/ GetPropertyError
    \/ SetPropertyMessage \/ SetPropertyTimeout \/ SetPropertyError
    \/ ReceiveMessage \/ ReceiveTimeout \/ ReceiveError

Flow ==
    \/ GetSettingsNext \/ RetGetSettings
    \/ MainAfterInitScan \/ MainAfterRunScan
    \/ InitScanDevice \/ RetSelectDevice
    \/ InitScanProfile \/ RetApplyProfile
    \/ InitScanSampleRate \/ RetSetSampleRate
    \/ InitScanLNAState \/ RetSetLNAState
    \/ InitScanSampleRateKnown \/ InitScanFilterBandwidthKnown \/ RetGetKnown
    \/ InitScanLOSpans
    \/ RunScanNext \/ RetSetCenterFrequency \/ RetDetect \/ RetListen \/ RetListenRDS

Next == Keyboard \/ Session \/ Flow

Spec == Init /\ [][Next]_vars

\* The main goroutine runs while it can, and a read whose deadline is armed
\* returns when the deadline passes.  Nothing makes the receiver send a
\* message or the user press a key.
FairSpec ==
    /\ Spec
    /\ WF_vars(Flow)
    /\ WF_vars(ReceiveTimeout)
    /\ WF_vars(SetPropertyTimeout)
    /\ WF_vars(GetPropertyTimeout)

(***************************************************************************)
(* Planner specification: bounded inputs, then one call of getLOSpans.     *)
(***************************************************************************)
MaxListLen == 3

PlanFreqs == { 100000, 100001, 100100, 500000 }
PlanSampleRates == { 250000, 600000, 2000000 }
PlanFilterBandwidths == { 10000, 192000, 300000 }
PlanOffsets == { 0, -5000, 10000 }

PlanLists == UNION { [1..n -> PlanFreqs] : n \in 1..MaxListLen }

RangeScan(start, stop, step, offset) ==
    [Start |-> start, Stop |-> stop, Step |-> step, List |-> << >>, LOOffset |-> offset]

ListScan(list, offset) ==
    [Start |-> 0, Stop |-> 0, Step |-> 0, List |-> list, LOOffset |-> offset]

\* range plans readConfigFile accepts (step > 0 needs stop > start, step < 0
\* needs stop < start), here with stop >= |step|
PlanRanges ==
    { << 87900000, 88500000, 200000 >>, << 100000, 500000, 100000 >>,
      << 88500000, 87900000, -200000 >>, << 500000, 100050, -100000 >> }

PlanScans ==
    { ListScan(l, o) : l \in PlanLists, o \in PlanOffsets }
    \cup { RangeScan(r[1], r[2], r[3], o) : r \in PlanRanges, o \in PlanOffsets }

PlanInit ==
    /\ MainInit
    /\ UnitIdle
    /\ planPhase = "input"
    /\ planScan \in PlanScans
    /\ planSettings \in [SampleRate : PlanSampleRates,
                         FilterBandwidth : PlanFilterBandwidths]
    /\ planSpans = << >>

PlanCompute ==
    /\ planPhase = "input"
    /\ planSpans' = getLOSpans(planScan, planSettings)
    /\ planPhase' = "done"
    /\ UNCHANGED <<planScan, planSettings, unitVars, mainVars>>

PlanNext == PlanCompute

PlanSpec == PlanInit /\ [][PlanNext]_vars

(***************************************************************************)
(* Properties of the session loop and the scan flow                        *)
(***************************************************************************)
\* the step is an iteration of receiveMessages that read a message
ReadsMessage == pc = "recv" /\ callMessages' = callMessages + 1

\* C1: in receiveMessages, an iteration that reads an event while the
\* terminate flag is set clears the flag and returns ErrUserCommandTerminate
\* in that same iteration, with or without a sequence pattern, paused or not.
C1_TerminateReturnsAtOnce ==
    [][(ReadsMessage /\ userCommandTerminate)
         => (pc' = "ret" /\ err' = ErrUserCommandTerminate /\ ~userCommandTerminate')]_vars

\* the terminate result was returned mid-drain by a call with a pattern
C1_Witness ==
    /\ pc = "ret" /\ err = ErrUserCommandTerminate
    /\ sequencePattern /\ callMessages = MaxCallMessages
    /\ received # NoMessage

\* C2: once the terminate flag is set, the program eventually ends.
C2_TerminateEndsProgram == userCommandTerminate ~> (exitStatus # "running")

SetsFrequency(message) ==
    /\ message.EventType = "set_property"
    /\ message.Property \in { "device_center_frequency", "device_vfo_frequency" }

\* C3: after a pause toggle was consumed while not paused, no center or VFO
\* frequency set request is sent until a second toggle, a skip or a terminate
\* is observed.
C3_PausedSendsNoFrequency == ~(holding /\ SetsFrequency(sent))

\* C4: a skip observed in scan i is returned to main as ErrUserCommandNextScan;
\* main then neither exits nor reports an error, and goes on to initialise
\* scan (i+1) mod N, which runScan starts at its first planned frequency.
C4_SkipStartsNextScan ==
    [][/\ (ReadsMessage /\ ~userCommandTerminate /\ userCommandNextScan)
            => (pc' = "ret" /\ err' = ErrUserCommandNextScan)
       /\ (pc = "ret" /\ err = ErrUserCommandNextScan /\ pc' # pc)
            => (/\ pc' \in { "mainInitRet", "mainRunRet" }
                /\ err' = ErrUserCommandNextScan
                /\ scanIdx' = scanIdx)
       /\ (pc \in { "mainInitRet", "mainRunRet" } /\ err = ErrUserCommandNextScan
           /\ pc' # pc)
            => (/\ pc' = "initDevice"
                /\ scanIdx' = (scanIdx % NumScans) + 1
                /\ exitStatus' = "running")
       /\ (pc = "mainInitRet" /\ pc' = "runScan") => planPos' = 1
      ]_vars

\* the skip was observed while the last scan ran, past its first frequency
C4_Witness ==
    /\ pc = "mainRunRet" /\ err = ErrUserCommandNextScan
    /\ scanIdx = NumScans /\ planPos >= 1

\* the step is an iteration of setSdrconnectProperty that read the
\* notification of the requested property
ReadsRequestedChange ==
    /\ pc = "setprop"
    /\ received'.EventType = "property_changed"
    /\ received'.Property = reqProperty

\* C5: setSdrconnectProperty returns changed = false, the requested value and
\* no error when the read deadline expires, and changed = true with the
\* event's value when a property_changed event for the property is read.
C5_SetPropertyResult ==
    [][/\ (pc = "setprop" /\ readErr' = ErrDeadlineExceeded)
            => (pc' = "ret" /\ err' = NoError /\ ~changed' /\ actualValue' = reqValue)
       /\ ReadsRequestedChange
            => (pc' = "ret" /\ err' = NoError /\ changed'
                /\ actualValue' = received'.Value)
       /\ (pc = "setprop" /\ pc' = "ret" /\ changed') => ReadsRequestedChange
      ]_vars

\* the deadline expired after another event had been read
C5_Witness ==
    /\ pc = "ret" /\ site = "setLNAState" /\ readErr = ErrDeadlineExceeded
    /\ callMessages >= 1 /\ ~changed /\ actualValue = reqValue /\ reqValue # 0

\* the step is an iteration of getSdrconnectProperty that read the response
\* for the requested property
ReadsRequestedResponse ==
    /\ pc = "getprop"
    /\ received'.EventType = "get_property_response"
    /\ received'.Property = reqProperty

\* C6: getSdrconnectProperty returns a value only from a get_property_response
\* for the requested property, every other event leaves the call reading with
\* nothing changed, and an expired deadline returns an error and no value.
C6_GetPropertyResult ==
    [][/\ (pc = "getprop" /\ pc' = "ret" /\ err' = NoError)
            => (ReadsRequestedResponse /\ actualValue' = received'.Value)
       /\ (pc = "getprop" /\ received' # NoMessage /\ ~ReadsRequestedResponse)
            => (pc' = "getprop" /\ UNCHANGED <<actualValue, sdrconnectSettings, err>>)
       /\ (pc = "getprop" /\ readErr' = ErrDeadlineExceeded)
            => (pc' = "ret" /\ err' # NoError /\ UNCHANGED actualValue)
      ]_vars

\* a response for another property was read and ignored
C6_Witness ==
    /\ pc = "getprop" /\ reqProperty = "device_sample_rate"
    /\ received = Message("get_property_response", "filter_bandwidth", 300000)
    /\ actualValue = 0

\* C7: receiveMessages without a pattern returns nil when the deadline expires
\* after at least one message was received in this call.
C7_TimeoutAfterMessageSucceeds ==
    [][(pc = "recv" /\ readErr' = ErrDeadlineExceeded /\ ~sequencePattern
        /\ callMessages >= 1)
         => (pc' = "ret" /\ err' = NoError)]_vars

\* a detect window ended by its deadline after one message
C7_Witness ==
    /\ pc = "ret" /\ site = "detect" /\ readErr = ErrDeadlineExceeded
    /\ callMessages = 1 /\ err = NoError

\* C8 as stated: receiveMessages without a pattern returns an error when the
\* deadline expires and no message was received in this call.
C8_TimeoutWithoutMessageFails ==
    [][(pc = "recv" /\ readErr' = ErrDeadlineExceeded /\ ~sequencePattern
        /\ callMessages = 0)
         => (pc' = "ret" /\ err' # NoError)]_vars

\* C8 amended: receiveMessages without a pattern returns the deadline error
\* when the deadline expires while receiveStats.countMessages is zero, that
\* is when no message was counted since runScan last cleared the statistics;
\* a detect window that received no message is always in that case.
C8_TimeoutWithoutCountFails ==
    [][/\ (pc = "recv" /\ readErr' = ErrDeadlineExceeded /\ ~sequencePattern
           /\ receiveStats.countMessages = 0)
            => (pc' = "ret" /\ err' = ErrDeadlineExceeded)
       /\ (pc = "recv" /\ site = "detect" /\ callMessages = 0)
            => receiveStats.countMessages = 0
      ]_vars

\* a detect window ended by its deadline without a message
C8_Witness ==
    /\ pc = "ret" /\ site = "detect" /\ readErr = ErrDeadlineExceeded
    /\ callMessages = 0 /\ err = ErrDeadlineExceeded

(***************************************************************************)
(* Properties of the LO span planner                                       *)
(***************************************************************************)
PlannedFrequencies == getScanFrequenciesAndIndexes(planScan)

\* C9: the spans getLOSpans returns for a non-empty plan partition the index
\* range [0, len(plan)-1]: the first starts at 0, each has from <= to, each
\* next one starts at the previous to + 1, the last ends at len(plan) - 1.
C9_SpansPartitionPlan ==
    (planPhase = "done" /\ Len(PlannedFrequencies) > 0) =>
        /\ Len(planSpans) >= 1
        /\ planSpans[1].from = 0
        /\ \A i \in 1..Len(planSpans) : planSpans[i].from <= planSpans[i].to
        /\ \A i \in 1..(Len(planSpans) - 1) :
               planSpans[i + 1].from = planSpans[i].to + 1
        /\ planSpans[Len(planSpans)].to = Len(PlannedFrequencies) - 1

\* a plan of three frequencies split in a span of two and a span of one
C9_Witness ==
    /\ planPhase = "done" /\ Len(PlannedFrequencies) = 3
    /\ Len(planSpans) = 2 /\ planSpans[1].to = 1

\* IFBandwidth(sampleRate) - filterBandwidth - |offset| as an integer
AvailableBandwidth ==
    getIFBandwidth(planSettings.SampleRate) - planSettings.FilterBandwidth
        - AbsOffset(planScan.LOOffset)

SpanFrequencies(span) ==
    { PlannedFrequencies[i + 1] : i \in span.from .. span.to }

SpanWidth(span) ==
    LET fs == SpanFrequencies(span)
    IN  (CHOOSE f \in fs : \A g \in fs : g <= f)
          - (CHOOSE f \in fs : \A g \in fs : f <= g)

\* C10: in every span getLOSpans returns, the largest planned frequency minus
\* the smallest is at most IFBandwidth(sampleRate) - filterBandwidth - |offset|.
C10_SpanWithinAvailableBandwidth ==
    planPhase = "done" =>
        \A i \in 1..Len(planSpans) : SpanWidth(planSpans[i]) <= AvailableBandwidth

SpanMin(span) == CHOOSE f \in SpanFrequencies(span) : \A g \in SpanFrequencies(span) : f <= g

SpanMax(span) == CHOOSE f \in SpanFrequencies(span) : \A g \in SpanFrequencies(span) : g <= f

\* C11: the center frequency of every span is the midpoint (in whole Hz) of
\* the smallest and the largest planned frequency of the span plus the LO
\* offset; a plan of one frequency gives the one span [0,0] at that frequency
\* plus the offset; and 100000, 100100, 500000 with 300000 Hz available and
\* offset 0 give exactly [0,1]@100050 and [2,2]@500000.
C11_SpanCenterIsMidpoint ==
    planPhase = "done" =>
        /\ \A i \in 1..Len(planSpans) :
               planSpans[i].frequency =
                   (SpanMin(planSpans[i]) + SpanMax(planSpans[i])) \div 2
                       + planScan.LOOffset
        /\ Len(PlannedFrequencies) = 1 =>
               planSpans = << [from |-> 0, to |-> 0,
                               frequency |-> PlannedFrequencies[1] + planScan.LOOffset] >>
        /\ (/\ PlannedFrequencies = << 100000, 100100, 500000 >>
            /\ AvailableBandwidth = 300000
            /\ planScan.LOOffset = 0) =>
               planSpans = << [from |-> 0, to |-> 1, frequency |-> 100050],
                              [from |-> 2, to |-> 2, frequency |-> 500000] >>

\* the plan 100000, 100100, 500000 was split with 300000 Hz available
C11_Witness ==
    /\ planPhase = "done"
    /\ PlannedFrequencies = << 100000, 100100, 500000 >>
    /\ AvailableBandwidth = 300000 /\ planScan.LOOffset = 0
    /\ Len(planSpans) = 2

(***************************************************************************)
(* Function specification: one function of the program is given inputs     *)
(* from a bounded set and applied.                                         *)
(***************************************************************************)
MaxPowers == 3

MaxSNRs == 2

\* elements a generator is followed for
MaxEmit == 6

\* notifications a center-frequency handshake is followed for
MaxEvents == 4

UnitSampleRates ==
    { 0, 150000, 199999, 200000, 250000, 299999, 300000, 600000, 1535999,
      1536000, 2000000, 5000000, 6000000, 7000000, 8000000, 10000000 }

\* the sequences over S of at most n elements
SeqsUpTo(S, n) == UNION { [1..k -> S] : k \in 0..n }

UnitPowers == { -80, -75, -40 }

UnitSNRs == { 3, 10 }

UnitPowerThresholds == { -1000, -70, 0 }

UnitSNRThresholds == { -2000, 0, 5 }

UnitStats ==
    [ signalPower : SeqsUpTo(UnitPowers, MaxPowers),
      signalSNR : SeqsUpTo(UnitSNRs, MaxSNRs) ]

UnitThresholds ==
    [ DetectPowerThreshold : UnitPowerThresholds,
      DetectSNRThreshold : UnitSNRThresholds ]

UnitRDS ==
    [ rdsPI : { << >>, << 4660 >>, << 4660, 4660 >>, << 4660, 22136 >> },
      rdsPS : { << >>, << "BBC" >>, << "BBC", "R4" >> } ]

UnitShown ==
    { [what |-> what, freq |-> freq,
       stats |-> [signalPower |-> power, signalSNR |-> snr,
                  rdsPI |-> rds.rdsPI, rdsPS |-> rds.rdsPS]] :
          what \in { "detect", "listen" }, freq \in { 100000, 100100 },
          power \in SeqsUpTo({ -60, -55 }, MaxPowers),
          snr \in SeqsUpTo(UnitSNRs, MaxSNRs), rds \in UnitRDS }

\* ranges readConfigFile accepts: step # 0, stop > start when step > 0 and
\* stop < start when step < 0
UnitRanges ==
    { << 100000, 500000, 100000 >>, << 100000, 450000, 100000 >>,
      << 87900000, 88500000, 200000 >>, << 0, 250000, 100000 >>,
      << 100000, 100001, 200000 >>,
      << 500000, 100000, -100000 >>, << 500000, 100050, -100000 >>,
      << 88500000, 87900000, -200000 >>, << 500000, 150000, -200000 >>,
      << 500000, 100000, -200000 >>, << 300000, 0, -100000 >>,
      << 100001, 100000, -200000 >> }

UnitGenerated ==
    { RangeScan(range[1], range[2], range[3], 0) : range \in UnitRanges }
        \cup { ListScan(list, 0) : list \in PlanLists }

\* the notifications the receiver may send during the handshake
UnitNotified ==
    { "device_center_frequency", "device_vfo_frequency", "device_sample_rate",
      "filter_bandwidth", "signal_power" }

\* a statistics list that holds `held` samples already, and the property
\* whose notifications fill it
UnitHeld ==
    { [property |-> property, held |-> held] :
          property \in { "signal_power", "signal_snr", "rds_pi", "rds_ps" },
          held \in { 0, maxStats - 2, maxStats - 1, maxStats } }

\* the scans whose generator goroutines are followed under runScan
UnitTaskScans ==
    { ListScan(list, 0) : list \in PlanLists }
        \cup { RangeScan(100000, 500000, 100000, 0),
               RangeScan(500000, 100000, -100000, 0) }

\* the results that make runScan return inside its range loop
UnitTaskResults == { ErrUserCommandNextScan, ErrUserCommandTerminate, ErrTransport }

UnitInputs ==
    { << "getIFBandwidth", sampleRate >> : sampleRate \in UnitSampleRates }
        \cup { << "detectSignal", [scan |-> scan, stats |-> stats] >> :
                   scan \in UnitThresholds, stats \in UnitStats }
        \cup { << "showStats", shown >> : shown \in UnitShown }
        \cup { << "getScanFrequenciesAndIndexes", scan >> : scan \in UnitGenerated }
        \cup { << "receiveStats", held >> : held \in UnitHeld }
        \cup { << "setCenterFrequency", events >> :
                   events \in SeqsUpTo(UnitNotified, MaxEvents) }
        \cup { << "runScan", scan >> : scan \in UnitTaskScans }

UnitInit ==
    /\ MainInit
    /\ PlanIdle
    /\ unitPhase = "input"
    /\ \E input \in UnitInputs : unitFn = input[1] /\ unitArg = input[2]
    /\ unitOut = 0

UnitGetIFBandwidth ==
    /\ unitPhase = "input" /\ unitFn = "getIFBandwidth"
    /\ unitOut' = getIFBandwidth(unitArg)
    /\ unitPhase' = "done"
    /\ UNCHANGED <<unitFn, unitArg, planVars, mainVars>>

UnitDetectSignal ==
    /\ unitPhase = "input" /\ unitFn = "detectSignal"
    /\ unitOut' = detectSignal(unitArg.scan, unitArg.stats)
    /\ unitPhase' = "done"
    /\ UNCHANGED <<unitFn, unitArg, planVars, mainVars>>

UnitShowStats ==
    /\ unitPhase = "input" /\ unitFn = "showStats"
    /\ \E order \in RDSPIOrders(unitArg.stats.rdsPI) :
           unitOut' = showStats(unitArg.what, unitArg.freq, unitArg.stats, order)
    /\ unitPhase' = "done"
    /\ UNCHANGED <<unitFn, unitArg, planVars, mainVars>>

UnitGeneratorStart ==
    /\ unitPhase = "input" /\ unitFn = "getScanFrequenciesAndIndexes"
    /\ unitOut' = GeneratorStart(unitArg)
    /\ unitPhase' = "run"
    /\ UNCHANGED <<unitFn, unitArg, planVars, mainVars>>

\* ch <- FrequencyAndIndex{...}, received by the consumer
UnitGeneratorEmit ==
    /\ unitPhase = "run" /\ unitFn = "getScanFrequenciesAndIndexes"
    /\ GeneratorContinues(unitArg, unitOut)
    /\ Len(unitOut.emitted) < MaxEmit
    /\ unitOut' = GeneratorEmit(unitArg, unitOut)
    /\ UNCHANGED <<unitPhase, unitFn, unitArg, planVars, mainVars>>

\* close(ch)
UnitGeneratorClose ==
    /\ unitPhase = "run" /\ unitFn = "getScanFrequenciesAndIndexes"
    /\ ~ GeneratorContinues(unitArg, unitOut)
    /\ unitPhase' = "done"
    /\ UNCHANGED <<unitFn, unitArg, unitOut, planVars, mainVars>>

\* receiveMessages as setCenterFrequency calls it, with the pattern ^.*CV$:
\* the call is followed through the notifications unitArg, one read a step
UnitHandshakeStart ==
    /\ unitPhase = "input" /\ unitFn = "setCenterFrequency"
    /\ unitOut' = [sequence |-> << >>, read |-> 0, err |-> NoError]
    /\ unitPhase' = "run"
    /\ UNCHANGED <<unitFn, unitArg, planVars, mainVars>>

\* a property_changed notification is read: the switch, then the pattern
UnitHandshakeMessage ==
    /\ unitPhase = "run" /\ unitFn = "setCenterFrequency"
    /\ unitOut.read < Len(unitArg)
    /\ LET message == Message("property_changed", unitArg[unitOut.read + 1], 0)
           after == PropertyChanged(sdrconnectSettings, receiveStats,
                                    unitOut.sequence, message)
       IN  /\ unitOut' = [sequence |-> after.sequence, read |-> unitOut.read + 1,
                          err |-> NoError]
           /\ unitPhase' = IF MatchString(after.sequence) THEN "done" ELSE "run"
    /\ UNCHANGED <<unitFn, unitArg, planVars, mainVars>>

\* no notification is left: the read deadline expires, and with a pattern
\* the deadline error is returned
UnitHandshakeTimeout ==
    /\ unitPhase = "run" /\ unitFn = "setCenterFrequency"
    /\ unitOut.read = Len(unitArg)
    /\ unitOut' = [unitOut EXCEPT !.err = ErrDeadlineExceeded]
    /\ unitPhase' = "done"
    /\ UNCHANGED <<unitFn, unitArg, planVars, mainVars>>

\* the samples of earlier notifications
HeldStats(property, held) ==
    LET sample == CHOOSE value \in ChangedValues(property) : value # 0
        list == [i \in 1..held |-> sample]
    IN  CASE property = "signal_power" -> [ClearedStats EXCEPT !.signalPower = list]
          [] property = "signal_snr" -> [ClearedStats EXCEPT !.signalSNR = list]
          [] property = "rds_pi" -> [ClearedStats EXCEPT !.rdsPI = list]
          [] property = "rds_ps" -> [ClearedStats EXCEPT !.rdsPS = list]

UnitStatsStart ==
    /\ unitPhase = "input" /\ unitFn = "receiveStats"
    /\ unitOut' = [stats |-> HeldStats(unitArg.property, unitArg.held), read |-> 0]
    /\ unitPhase' = "run"
    /\ UNCHANGED <<unitFn, unitArg, planVars, mainVars>>

\* one more notification of the property is read: the switch of receiveMessages
UnitStatsMessage ==
    /\ unitPhase = "run" /\ unitFn = "receiveStats"
    /\ unitOut.read < MaxEvents
    /\ \E value \in ChangedValues(unitArg.property) :
          LET message == Message("property_changed", unitArg.property, value)
              after == PropertyChanged(sdrconnectSettings, unitOut.stats, << >>, message)
          IN  unitOut' = [stats |-> after.stats, read |-> unitOut.read + 1]
    /\ UNCHANGED <<unitPhase, unitFn, unitArg, planVars, mainVars>>

\* runScan ranges over getScanFrequenciesAndLOFrequencies(scan): the call
\* makes the channel and starts the goroutine, whose range over
\* getScanFrequenciesAndIndexes(scan) makes the inner channel and starts the
\* inner goroutine.  Both channels are unbuffered: a send is one step with
\* the matching receive.
\*   inner      the loop of the goroutine of getScanFrequenciesAndIndexes
\*   innerOpen  its channel is not closed yet
\*   outer      the goroutine of getScanFrequenciesAndLOFrequencies: "recv" at
\*              its range over the inner channel, "send" at ch <- ..., "done"
\*              after close(ch)
\*   runScan    "recv" at its range over the channel, "body" in the loop
\*              body, "returned"
\*   taken      the elements runScan has received
UnitTasksStart ==
    /\ unitPhase = "input" /\ unitFn = "runScan"
    /\ unitOut' = [inner |-> GeneratorStart(unitArg), innerOpen |-> TRUE,
                   outer |-> "recv", runScan |-> "recv", taken |-> 0,
                   err |-> NoError]
    /\ unitPhase' = "run"
    /\ UNCHANGED <<unitFn, unitArg, planVars, mainVars>>

\* ch <- FrequencyAndIndex{...} of the inner goroutine meets the range of the
\* outer one
UnitInnerSend ==
    /\ unitPhase = "run" /\ unitFn = "runScan"
    /\ unitOut.innerOpen /\ GeneratorContinues(unitArg, unitOut.inner)
    /\ Len(unitOut.inner.emitted) < MaxEmit
    /\ unitOut.outer = "recv"
    /\ unitOut' = [unitOut EXCEPT !.inner = GeneratorEmit(unitArg, unitOut.inner),
                                  !.outer = "send"]
    /\ UNCHANGED <<unitPhase, unitFn, unitArg, planVars, mainVars>>

\* close(ch) of the inner goroutine, which ends
UnitInnerClose ==
    /\ unitPhase = "run" /\ unitFn = "runScan"
    /\ unitOut.innerOpen /\ ~ GeneratorContinues(unitArg, unitOut.inner)
    /\ unitOut' = [unitOut EXCEPT !.innerOpen = FALSE]
    /\ UNCHANGED <<unitPhase, unitFn, unitArg, planVars, mainVars>>

\* ch <- FrequencyAndLOFrequency{...} of the outer goroutine meets the range
\* of runScan
UnitOuterSend ==
    /\ unitPhase = "run" /\ unitFn = "runScan"
    /\ unitOut.outer = "send" /\ unitOut.runScan = "recv"
    /\ unitOut' = [unitOut EXCEPT !.outer = "recv", !.runScan = "body",
                                  !.taken = unitOut.taken + 1]
    /\ UNCHANGED <<unitPhase, unitFn, unitArg, planVars, mainVars>>

\* the range of the outer goroutine ends on the closed inner channel:
\* close(ch), and the goroutine ends
UnitOuterClose ==
    /\ unitPhase = "run" /\ unitFn = "runScan"
    /\ unitOut.outer = "recv" /\ ~ unitOut.innerOpen
    /\ unitOut' = [unitOut EXCEPT !.outer = "done"]
    /\ UNCHANGED <<unitPhase, unitFn, unitArg, planVars, mainVars>>

\* the loop body of runScan ends: back to the range for the next frequency
UnitRunScanNext ==
    /\ unitPhase = "run" /\ unitFn = "runScan"
    /\ unitOut.runScan = "body"
    /\ unitOut' = [unitOut EXCEPT !.runScan = "recv"]
    /\ UNCHANGED <<unitPhase, unitFn, unitArg, planVars, mainVars>>

\* a call of the loop body fails or is interrupted: return inside the range
UnitRunScanReturn ==
    /\ unitPhase = "run" /\ unitFn = "runScan"
    /\ unitOut.runScan = "body"
    /\ \E e \in UnitTaskResults :
           unitOut' = [unitOut EXCEPT !.runScan = "returned", !.err = e]
    /\ UNCHANGED <<unitPhase, unitFn, unitArg, planVars, mainVars>>

\* the range of runScan ends on the closed channel: return nil
UnitRunScanExhausted ==
    /\ unitPhase = "run" /\ unitFn = "runScan"
    /\ unitOut.runScan = "recv" /\ unitOut.outer = "done"
    /\ unitOut' = [unitOut EXCEPT !.runScan = "returned"]
    /\ UNCHANGED <<unitPhase, unitFn, unitArg, planVars, mainVars>>

UnitNext ==
    \/ UnitTasksStart
    \/ UnitInnerSend
    \/ UnitInnerClose
    \/ UnitOuterSend
    \/ UnitOuterClose
    \/ UnitRunScanNext
    \/ UnitRunScanReturn
    \/ UnitRunScanExhausted
    \/ UnitStatsStart
    \/ UnitStatsMessage
    \/ UnitHandshakeStart
    \/ UnitHandshakeMessage
    \/ UnitHandshakeTimeout
    \/ UnitGetIFBandwidth
    \/ UnitDetectSignal
    \/ UnitShowStats
    \/ UnitGeneratorStart
    \/ UnitGeneratorEmit
    \/ UnitGeneratorClose

UnitSpec == UnitInit /\ [][UnitNext]_vars

(***************************************************************************)
(* Properties of getIFBandwidth, detectSignal, showStats and the generator *)
(***************************************************************************)
Returned(fn) == unitPhase = "done" /\ unitFn = fn

BucketsHz == { bandwidthskHz[i] * 1000 : i \in 1..Len(bandwidthskHz) }

\* the buckets (in Hz) whose kHz value exceeds floor(sampleRate/1000)
Exceeding(sampleRate) ==
    { b \in BucketsHz : b \div 1000 > sampleRate \div 1000 }

SetMin(S) == CHOOSE x \in S : \A y \in S : x <= y

SetMax(S) == CHOOSE x \in S : \A y \in S : y <= x

\* C12 as stated: getIFBandwidth returns the first bucket whose value exceeds
\* r = floor(sampleRate/1000), and the last bucket when none does, in Hz.
C12_FirstExceedingBucket ==
    Returned("getIFBandwidth") =>
        unitOut = IF Exceeding(unitArg) = {} THEN SetMax(BucketsHz)
                  ELSE SetMin(Exceeding(unitArg))

\* C12 amended: getIFBandwidth returns the largest bucket that does not exceed
\* r (the bucket before the first one that exceeds r), the first bucket when
\* r is below it, and so the last bucket when no bucket exceeds r, in Hz.
C12_LargestBucketWithin ==
    Returned("getIFBandwidth") =>
        unitOut = IF BucketsHz \ Exceeding(unitArg) = {} THEN SetMin(BucketsHz)
                  ELSE SetMax(BucketsHz \ Exceeding(unitArg))

\* a sample rate of 2 MHz gave 1536 kHz, not the 5000 kHz that exceeds it
C12_Witness ==
    Returned("getIFBandwidth") /\ unitArg = 2000000 /\ unitOut = 1536000

\* the maximum the detection compares: the sample when one was collected, the
\* largest of all samples but the first when two or more were
CollectedMax(samples) ==
    IF Len(samples) = 1 THEN samples[1]
    ELSE SetMax({ samples[i] : i \in 2..Len(samples) })

\* C13: detectSignal reports a signal iff the power maximum reaches the power
\* threshold or the SNR maximum reaches the SNR threshold, the maximum of a
\* metric being its only sample, or the largest of all samples but the first;
\* the power samples [-40,-80,-75] do not trigger on a threshold of -70.
C13_DetectIgnoresFirstSample ==
    Returned("detectSignal") =>
        LET power == unitArg.stats.signalPower
            snr == unitArg.stats.signalSNR
            scan == unitArg.scan
        IN  /\ (Len(power) >= 1 /\ Len(snr) >= 1) =>
                   unitOut = (\/ CollectedMax(power) >= scan.DetectPowerThreshold
                              \/ CollectedMax(snr) >= scan.DetectSNRThreshold)
            /\ (/\ power = << -40, -80, -75 >>
                /\ scan.DetectPowerThreshold = -70
                /\ Len(snr) >= 1) =>
                   unitOut = (CollectedMax(snr) >= scan.DetectSNRThreshold)

\* the first power sample alone would have triggered, and nothing was detected
C13_Witness ==
    /\ Returned("detectSignal")
    /\ unitArg.stats.signalPower = << -40, -80, -75 >>
    /\ unitArg.stats.signalSNR = << 10, 3 >>
    /\ unitArg.scan.DetectPowerThreshold = -70
    /\ unitArg.scan.DetectSNRThreshold = 5
    /\ unitOut = FALSE

\* C14: with no power sample and no SNR sample at the decision point,
\* detectSignal reports no signal, whatever thresholds the configuration gives.
C14_EmptyWindowNeverDetects ==
    (/\ Returned("detectSignal")
     /\ unitArg.stats.signalPower = << >>
     /\ unitArg.stats.signalSNR = << >>) => unitOut = FALSE

\* the fields of a printed report whose format is one of formats
Printed(formats) == SelectSeq(unitOut, LAMBDA field : field.format \in formats)

Single(format, sample) == << Field(format, << Format1(sample) >>) >>

Range(format, low, high) == << Field(format, << Format1(low), Format1(high) >>) >>

AllButFirst(samples) == { samples[i] : i \in 2..Len(samples) }

\* C15 as stated: power (and likewise SNR) is printed as a single value when
\* exactly one sample remains after excluding the first, so [-60,-55] prints
\* pwr=-55.0dB; a range is printed only when two or more remain.
C15_SingleValueAfterExclusion ==
    Returned("showStats") =>
        LET power == unitArg.stats.signalPower
            snr == unitArg.stats.signalSNR
        IN  /\ Len(power) = 2 =>
                   Printed({ "pwr=%.1fdB", "pwr=[%.1fdB,%.1fdB]" })
                       = Single("pwr=%.1fdB", power[2])
            /\ Len(snr) = 2 =>
                   Printed({ "snr=%.1fdB", "snr=[%.1f.dB,%.1fdB]" })
                       = Single("snr=%.1fdB", snr[2])
            /\ power = << -60, -55 >> =>
                   Printed({ "pwr=%.1fdB", "pwr=[%.1fdB,%.1fdB]" })
                       = Single("pwr=%.1fdB", -55)

\* C15 amended: power (and likewise SNR) is printed as a single value only
\* when exactly one sample was collected, and that sample is printed; with
\* two or more samples the range [min,max] over all samples but the first is
\* printed, so [-60,-55] prints pwr=[-55.0dB,-55.0dB]; with none, no field.
C15_SingleValueOnlyForOneSample ==
    Returned("showStats") =>
        LET power == unitArg.stats.signalPower
            snr == unitArg.stats.signalSNR
            pwrFields == Printed({ "pwr=%.1fdB", "pwr=[%.1fdB,%.1fdB]" })
            snrFields == Printed({ "snr=%.1fdB", "snr=[%.1f.dB,%.1fdB]" })
        IN  /\ Len(power) = 0 => pwrFields = << >>
            /\ Len(power) = 1 => pwrFields = Single("pwr=%.1fdB", power[1])
            /\ Len(power) >= 2 =>
                   pwrFields = Range("pwr=[%.1fdB,%.1fdB]",
                                     SetMin(AllButFirst(power)),
                                     SetMax(AllButFirst(power)))
            /\ Len(snr) = 0 => snrFields = << >>
            /\ Len(snr) = 1 => snrFields = Single("snr=%.1fdB", snr[1])
            /\ Len(snr) >= 2 =>
                   snrFields = Range("snr=[%.1f.dB,%.1fdB]",
                                     SetMin(AllButFirst(snr)),
                                     SetMax(AllButFirst(snr)))
            /\ power = << -60, -55 >> =>
                   pwrFields = Range("pwr=[%.1fdB,%.1fdB]", -55, -55)

\* two power samples were collected and a range was printed
C15_Witness ==
    /\ Returned("showStats")
    /\ unitArg.stats.signalPower = << -60, -55 >>
    /\ Printed({ "pwr=[%.1fdB,%.1fdB]" }) # << >>

\* the generator of a range with step of the given sign is running or closed
Generating(sign) ==
    /\ unitFn = "getScanFrequenciesAndIndexes"
    /\ unitPhase \in { "run", "done" }
    /\ unitArg.Step * sign > 0

\* C16: for a range with step > 0 and start < stop the generator emits a
\* finite sequence with indexes 0,1,2,... that starts at start, increases by
\* exactly step, and whose last element is <= stop and > stop - step.
C16_UpRangeSequence ==
    Generating(1) =>
        LET emitted == unitOut.emitted
            scan == unitArg
        IN  /\ \A i \in 1..Len(emitted) :
                   /\ emitted[i].index = i - 1
                   /\ emitted[i].frequency = scan.Start + (i - 1) * scan.Step
                   /\ emitted[i].frequency <= scan.Stop
            /\ Len(emitted) <= (scan.Stop - scan.Start) \div scan.Step + 1
            /\ unitPhase = "done" =>
                   /\ Len(emitted) >= 1
                   /\ emitted[Len(emitted)].frequency <= scan.Stop
                   /\ emitted[Len(emitted)].frequency > scan.Stop - scan.Step

\* the generator of 100000..500000 by 100000 has closed after stop itself
C16_Witness ==
    /\ Generating(1) /\ unitPhase = "done"
    /\ unitArg.Start = 100000 /\ unitArg.Stop = 500000
    /\ Len(unitOut.emitted) = 5
    /\ unitOut.emitted[5] = FrequencyAndIndex(500000, 4)

\* C17: for a range with step < 0 and start > stop, stop smaller than |step|
\* included, the generator emits a finite sequence that starts at start,
\* decreases by exactly |step|, and whose last element is >= stop and
\* < stop + |step|.
C17_DownRangeSequence ==
    Generating(-1) =>
        LET emitted == unitOut.emitted
            scan == unitArg
        IN  /\ \A i \in 1..Len(emitted) :
                   /\ emitted[i].index = i - 1
                   /\ emitted[i].frequency = scan.Start - (i - 1) * (-scan.Step)
                   /\ emitted[i].frequency >= scan.Stop
            /\ Len(emitted) <= (scan.Start - scan.Stop) \div (-scan.Step) + 1
            /\ unitPhase = "done" =>
                   /\ Len(emitted) >= 1
                   /\ emitted[Len(emitted)].frequency >= scan.Stop
                   /\ emitted[Len(emitted)].frequency < scan.Stop + (-scan.Step)

\* the setting initScan records after the set request made at site s
RecordedAfter(s, settings) ==
    IF s = "setSampleRate" THEN settings.SampleRate ELSE settings.LNAState

\* C18: when initScan has set a remote property and the receiver reported a
\* value in a property-changed event for it, the value initScan records in
\* the settings is the reported one, never a requested value that differs.
C18_RecordsReportedValue ==
    [][(/\ pc = "ret" /\ site \in { "setSampleRate", "setLNAState" }
        /\ err = NoError /\ changed
        /\ pc' # "ret")
          => RecordedAfter(site, sdrconnectSettings') = actualValue]_vars

(***************************************************************************)
(* Key specification: the keyboard task runs against the call of           *)
(* receiveMessages that follows the device selection of the first scan.    *)
(***************************************************************************)
KeyInit ==
    /\ PlanIdle /\ UnitIdle
    /\ pc = "recv"
    /\ scanIdx = 1
    /\ planPos = 0
    /\ propIdx = Len(SettingsProperties) + 1
    /\ sdrconnectSettings =
         [DeviceName |-> "", DeviceSerial |-> "", Profile |-> "", SampleRate |-> 0,
          FilterBandwidth |-> 0, DeviceCenterFrequency |-> 0,
          DeviceVFOFrequency |-> 0, LNAState |-> 0]
    /\ receiveStats = ClearedStats
    /\ scanLOSpans = [i \in 1..NumScans |-> << >>]
    /\ userCommandTogglePause = FALSE
    /\ userCommandNextScan = FALSE
    /\ userCommandTerminate = FALSE
    /\ kbRunning = TRUE
    /\ keyHistory = [NoKeyHistory EXCEPT !.on = TRUE]
    /\ site = "selectDeviceByName"
    /\ sequencePattern = FALSE
    /\ sequence = << >>
    /\ paused = FALSE
    /\ deadline = "armed"
    /\ reqProperty = ""
    /\ reqValue = 0
    /\ err = NoError
    /\ actualValue = 0
    /\ changed = FALSE
    /\ sent = Message("selected_device_name", "", Scans[1].DeviceName)
    /\ received = NoMessage
    /\ readErr = NoError
    /\ report = ""
    /\ callMessages = 0
    /\ holding = FALSE
    /\ exitStatus = "running"

KeyNext ==
    \/ Keyboard
    \/ ReceiveMessage
    \/ ReceiveTimeout
    \/ ReceiveError

KeySpec == KeyInit /\ [][KeyNext]_vars

Flag(key) ==
    CASE key = "pause" -> userCommandTogglePause
      [] key = "skip" -> userCommandNextScan
      [] key = "terminate" -> userCommandTerminate

\* C19: under every interleaving of the keyboard task and the session loop
\* each keypress that sets a flag is consumed and cleared exactly once: no
\* flag is consumed more often than its key was pressed, and when a flag is
\* clear every press of its key has been consumed, so two pause keypresses
\* give two pause toggles.
C19_EveryKeypressConsumedOnce ==
    (keyHistory.on /\ Running) =>
        \A key \in Keys :
            /\ keyHistory.consumed[key] <= keyHistory.pressed[key]
            /\ ~ Flag(key) => keyHistory.consumed[key] = keyHistory.pressed[key]

\* the step is an iteration of receiveMessages that consumed a pause toggle
\* while paused and went on reading
Resumes ==
    /\ pc = "recv" /\ paused /\ userCommandTogglePause
    /\ pc' = "recv" /\ ~ paused'

\* C20: when a pause toggle is consumed while paused, the call goes on under
\* a re-armed timeout that has not yet expired, so the resume alone does not
\* make the next read return, as success or as a deadline error.
C20_ResumeRearmsTimeout ==
    [][Resumes => deadline' = "armed"]_vars

\* the notifications read so far by the handshake
EventsRead == SubSeq(unitArg, 1, unitOut.read)

\* within events a center notification is followed later by a VFO one
CenterThenVFO(events) ==
    \E i, j \in 1..Len(events) :
        /\ i < j
        /\ events[i] = "device_center_frequency"
        /\ events[j] = "device_vfo_frequency"

\* the notifications that leave a letter in the sequence
Lettered(events) ==
    SelectSeq(events, LAMBDA p : p \in { "device_sample_rate", "device_vfo_frequency",
                                          "device_center_frequency", "filter_bandwidth" })

\* events ends, but for notifications without a letter, with a center
\* notification and then a VFO one
CenterThenVFOLast(events) ==
    LET lettered == Lettered(events)
    IN  /\ Len(lettered) >= 2
        /\ lettered[Len(lettered) - 1] = "device_center_frequency"
        /\ lettered[Len(lettered)] = "device_vfo_frequency"

HandshakeSucceeded == Returned("setCenterFrequency") /\ unitOut.err = NoError

HandshakeRuns ==
    unitFn = "setCenterFrequency" /\ unitPhase \in { "run", "done" }

\* C21 as stated: the handshake succeeds exactly when, within the call, a
\* center notification has been followed later by a VFO notification,
\* whatever notifications arrive between or around them.
C21_SucceedsOnSubsequence ==
    HandshakeRuns => (HandshakeSucceeded <=> CenterThenVFO(EventsRead))

\* C21 amended: the handshake succeeds exactly when, among the sample rate,
\* VFO, center and filter bandwidth notifications read in the call, a center
\* notification is immediately followed by a VFO notification; a sample rate
\* or filter bandwidth notification between the two defeats the match, every
\* other notification between them does not.
C21_SucceedsOnAdjacentPair ==
    HandshakeRuns =>
        /\ HandshakeSucceeded <=> CenterThenVFOLast(EventsRead)
        /\ \A n \in 0..(unitOut.read - 1) : ~ CenterThenVFOLast(SubSeq(unitArg, 1, n))

\* a filter bandwidth notification came between center and VFO, and the
\* handshake ended with the deadline error
C21_Witness ==
    /\ Returned("setCenterFrequency")
    /\ unitArg = << "device_center_frequency", "filter_bandwidth",
                    "device_vfo_frequency" >>
    /\ unitOut.err = ErrDeadlineExceeded

\* the step sends a center-frequency set request
SendsCenter ==
    /\ sent'.EventType = "set_property"
    /\ sent'.Property = "device_center_frequency"

\* C22: in a pass of runScan a center-frequency set request is sent only at
\* the first plan index of a span, for that span's center, and only if that
\* center differs from the recorded center frequency; the loop visits every
\* index once, so there is at most one request per span per pass and none at
\* a later index of a span.
C22_CenterOnlyAtSpanStart ==
    [][/\ SendsCenter =>
            /\ pc = "runScan"
            /\ \E n \in 1..Len(scanLOSpans[scanIdx]) :
                   /\ scanLOSpans[scanIdx][n].from = planPos - 1
                   /\ scanLOSpans[scanIdx][n].frequency = sent'.Value
            /\ sent'.Value # sdrconnectSettings.DeviceCenterFrequency
            /\ pc' # "runScan"
       /\ pc = "runScan" => planPos' = planPos
       /\ (pc # "runScan" /\ pc' = "runScan") =>
            (planPos' = planPos + 1 \/ (pc = "mainInitRet" /\ planPos' = 1))
      ]_vars

\* the second scan had moved the center: the first span of the first scan is
\* retuned again in a later pass
C22_Witness ==
    /\ sent.EventType = "set_property"
    /\ sent.Property = "device_center_frequency"
    /\ scanIdx = 1 /\ planPos = 1
    /\ sent.Value = 100050
    /\ sdrconnectSettings.DeviceCenterFrequency = 500000

\* the handshake or the detect drain has returned success and the recorded
\* frequency is not the requested one
Mismatched ==
    /\ pc = "ret" /\ err = NoError
    /\ \/ /\ site = "setCenterFrequency"
          /\ sdrconnectSettings.DeviceCenterFrequency # reqValue
       \/ /\ site = "detect"
          /\ sdrconnectSettings.DeviceVFOFrequency # reqValue

\* C23: when the recorded center or VFO frequency differs from the requested
\* one after the handshake or the detect drain, runScan returns an error at
\* once, without detection decision, report or request, and main ends the
\* program without visiting a later frequency.
C23_MismatchEndsScan ==
    [][/\ (Mismatched /\ pc' # pc) =>
            /\ pc' = "mainRunRet" /\ err' = ErrMismatch
            /\ report' = "" /\ sent' = NoMessage
            /\ planPos' = planPos
       /\ (pc = "mainRunRet" /\ err = ErrMismatch /\ pc' # pc) =>
            /\ pc' = "exit" /\ exitStatus' = "scan error"
            /\ report' = "" /\ sent' = NoMessage
      ]_vars

\* the detect drain ended with another VFO frequency recorded, and runScan
\* has returned the mismatch
C23_Witness ==
    /\ pc = "mainRunRet" /\ err = ErrMismatch
    /\ sdrconnectSettings.DeviceVFOFrequency = OtherFrequency
    /\ receiveStats.countMessages > 0

\* a drain of runScan has returned success to the flow, which takes its step
Returns(s) == pc = "ret" /\ site = s /\ err = NoError /\ pc' # pc

\* C24: for a visited frequency runScan prints nothing when the detection
\* rule is false; when it is true it prints "detect", drains for listenTime,
\* drains for the RDS extension iff a station identifier has been decoded by
\* then and the extension is greater than zero, and only then prints
\* "listen"; "listen" is never printed without the "detect" of the same visit
\* and the next frequency is not tuned before it.
C24_ReportOrder ==
    [][/\ (Returns("detect") /\ sdrconnectSettings.DeviceVFOFrequency = reqValue) =>
            IF detectSignal(Scans[scanIdx], receiveStats)
            THEN /\ report' = "detect"
                 /\ pc' = "recv" /\ site' = "listen" /\ ~ sequencePattern'
                 /\ sent' = NoMessage /\ planPos' = planPos
            ELSE /\ report' = ""
                 /\ pc' = "runScan" /\ planPos' = planPos + 1
       /\ Returns("listen") =>
            IF Len(receiveStats.rdsPI) > 0 /\ Scans[scanIdx].ListenExtraTimeRDS > 0
            THEN /\ report' = ""
                 /\ pc' = "recv" /\ site' = "listenRDS" /\ ~ sequencePattern'
                 /\ sent' = NoMessage /\ planPos' = planPos
            ELSE /\ report' = "listen"
                 /\ pc' = "runScan" /\ planPos' = planPos + 1
       /\ Returns("listenRDS") =>
            /\ report' = "listen"
            /\ pc' = "runScan" /\ planPos' = planPos + 1
       /\ report' = "detect" => Returns("detect")
       /\ report' = "listen" => (Returns("listen") \/ Returns("listenRDS"))
       /\ (site' = "listen" /\ site # "listen") => report' = "detect"
       /\ (site' = "listenRDS" /\ site # "listenRDS") => Returns("listen")
       /\ (site \in { "listen", "listenRDS" } /\ planPos' # planPos) =>
            (report' = "listen" \/ planPos' = 0)
       /\ (site \in { "listen", "listenRDS" } /\ SetsFrequency(sent')) => FALSE
      ]_vars

\* the extended listen has ended and the "listen" report was printed
C24_Witness ==
    /\ report = "listen" /\ pc = "runScan"
    /\ Len(receiveStats.rdsPI) > 0
    /\ Scans[scanIdx].ListenExtraTimeRDS > 0

StatLists == { "signalPower", "signalSNR", "rdsPI", "rdsPS" }

IsPrefix(s, t) == Len(s) <= Len(t) /\ SubSeq(t, 1, Len(s)) = s

\* the step begins setVFOFrequencyAndGetSignalStats: the VFO request is sent,
\* or its send fails
SetsVFO == site # "detect" /\ site' = "detect"

\* the step removes something from the statistics window
Clears ==
    \/ receiveStats'.countMessages < receiveStats.countMessages
    \/ \E list \in StatLists : ~ IsPrefix(receiveStats[list], receiveStats'[list])

SamplesHeld ==
    Len(receiveStats.signalPower) + Len(receiveStats.signalSNR)
        + Len(receiveStats.rdsPI) + Len(receiveStats.rdsPS)

\* C25: the statistics window (message count and the four lists) is cleared
\* once per frequency visit, after any LO retune and just before the VFO set
\* request, and at no other step, so not between the detect window and the
\* listen report; the detection decision therefore uses only samples read
\* after the VFO set request of its frequency was sent.
C25_ClearedOncePerVisit ==
    [][/\ SetsVFO => receiveStats' = ClearedStats
       /\ Clears => SetsVFO
       /\ (site' = "detect" /\ site = "detect") =>
            /\ receiveStats.countMessages = callMessages
            /\ SamplesHeld <= callMessages
       /\ (site \in { "detect", "listen", "listenRDS" }
            /\ site' \in { "listen", "listenRDS" }) =>
               \A list \in StatLists : IsPrefix(receiveStats[list], receiveStats'[list])
      ]_vars

\* the second frequency of the list is decided on the one sample read in its
\* own detect window, after the first frequency had collected a sample too
C25_Witness ==
    /\ pc = "ret" /\ site = "detect" /\ err = NoError
    /\ scanIdx = 1 /\ planPos = 2
    /\ Len(receiveStats.signalPower) = 1
    /\ receiveStats.countMessages = callMessages

\* C26: each of the four statistics lists holds at most maxStats (100)
\* entries however many notifications arrive; a notification that finds its
\* list full is dropped, and the samples held before are kept.
C26_ListsWithinCapacity ==
    [][(unitFn = "receiveStats" /\ unitPhase = "run" /\ unitPhase' = "run") =>
          \A list \in StatLists :
              /\ Len(unitOut'.stats[list]) <= maxStats
              /\ IsPrefix(unitOut.stats[list], unitOut'.stats[list])
              /\ Len(unitOut.stats[list]) = maxStats =>
                     unitOut'.stats[list] = unitOut.stats[list]
      ]_vars

\* three power notifications were read over 98 samples: the list is full
\* and the third was dropped
C26_Witness ==
    /\ unitFn = "receiveStats" /\ unitPhase = "run"
    /\ unitArg = [property |-> "signal_power", held |-> maxStats - 2]
    /\ unitOut.read = 3
    /\ Len(unitOut.stats.signalPower) = maxStats

\* the flag was set and the step clears it
Cleared(key) ==
    CASE key = "pause" -> userCommandTogglePause /\ ~ userCommandTogglePause'
      [] key = "skip" -> userCommandNextScan /\ ~ userCommandNextScan'
      [] key = "terminate" -> userCommandTerminate /\ ~ userCommandTerminate'

\* C27: an event read by receiveMessages consumes at most one interrupt
\* flag, terminate before skip before pause-toggle; a flag of lower priority
\* set at the same time stays set, and while the program runs a flag is
\* cleared by nothing but such an iteration.
C27_OneFlagPerEvent ==
    [][/\ ReadsMessage =>
            /\ Cardinality({ key \in Keys : Cleared(key) }) <= 1
            /\ userCommandTerminate =>
                   /\ Cleared("terminate")
                   /\ userCommandNextScan' = userCommandNextScan
                   /\ userCommandTogglePause' = userCommandTogglePause
            /\ (~ userCommandTerminate /\ userCommandNextScan) =>
                   /\ Cleared("skip")
                   /\ userCommandTogglePause' = userCommandTogglePause
            /\ (~ userCommandTerminate /\ ~ userCommandNextScan
                 /\ userCommandTogglePause) => Cleared("pause")
       /\ \A key \in Keys : Cleared(key) => (ReadsMessage \/ pc' = "exit")
      ]_vars

\* a skip was consumed while the pause flag was set: the pause flag is left
\* for a later iteration
C27_Witness ==
    /\ pc = "ret" /\ err = ErrUserCommandNextScan
    /\ received # NoMessage
    /\ ~ userCommandNextScan /\ userCommandTogglePause

\* an error that is neither of the two control-flow results
Failure(e) ==
    e \notin {NoError, ErrUserCommandNextScan, ErrUserCommandTerminate}

\* a step of the program itself, the keyboard task aside
FlowStep == pc' # pc \/ site' # site

\* C28: when initScan or runScan fails with an error that is neither skip
\* nor terminate, the function returns it to main without another request,
\* and main ends the program without another request and without moving to
\* another configured scan.
C28_FailureEndsProgram ==
    [][/\ (pc = "ret" /\ Failure(err) /\ site # "getSettings" /\ FlowStep) =>
            /\ pc' \in {"mainInitRet", "mainRunRet"}
            /\ err' = err
            /\ sent' = NoMessage /\ report' = ""
            /\ scanIdx' = scanIdx /\ planPos' = planPos
       /\ (pc \in {"mainInitRet", "mainRunRet"} /\ Failure(err) /\ FlowStep) =>
            /\ pc' = "exit"
            /\ exitStatus' = (IF pc = "mainInitRet" THEN "init scan error"
                                                   ELSE "scan error")
            /\ sent' = NoMessage /\ report' = ""
            /\ scanIdx' = scanIdx /\ planPos' = planPos
       /\ pc = "exit" => UNCHANGED <<pc, sent, scanIdx, planPos, exitStatus>>
      ]_vars

\* a transport failure in a window of runScan has ended the program while a
\* later scan was configured
C28_Witness ==
    /\ pc = "exit" /\ exitStatus = "scan error"
    /\ err = ErrTransport
    /\ scanIdx < NumScans

\* a deadline failure in initScan has ended the program
C28_WitnessInit ==
    /\ pc = "exit" /\ exitStatus = "init scan error"
    /\ err = ErrDeadlineExceeded

\* largest minus smallest planned frequency over the plan indexes from..to
RunWidth(from, to) == SpanWidth([from |-> from, to |-> to])

\* the contiguous runs a set of cut indexes divides the plan into: a cut c
\* starts a new run at index c
Runs(cuts) ==
    LET last   == Len(PlannedFrequencies) - 1
        starts == cuts \cup {0}
    IN  { << s, SetMin({ c - 1 : c \in { d \in cuts : d > s } } \cup {last}) >> :
            s \in starts }

\* every run of the partition satisfies the width bound
Fits(cuts) ==
    \A run \in Runs(cuts) : RunWidth(run[1], run[2]) <= AvailableBandwidth

\* C29: every span getLOSpans returns, the last excepted, is maximal (with
\* the planned frequency at index to + 1 added, largest minus smallest
\* exceeds the available bandwidth), and no partition of the plan into fewer
\* contiguous runs keeps every run within the available bandwidth.
C29_SpansMinimal ==
    planPhase = "done" =>
        /\ \A i \in 1..(Len(planSpans) - 1) :
               RunWidth(planSpans[i].from, planSpans[i].to + 1) > AvailableBandwidth
        /\ \A cuts \in SUBSET (1..(Len(PlannedFrequencies) - 1)) :
               Cardinality(cuts) + 1 < Len(planSpans) => ~ Fits(cuts)

\* a plan split in several spans, the first of them holding more than one
\* frequency, with a partition of the same size within the bandwidth
C29_Witness ==
    /\ planPhase = "done"
    /\ AvailableBandwidth > 0
    /\ Len(planSpans) >= 2
    /\ planSpans[1].to > planSpans[1].from
    /\ \E cuts \in SUBSET (1..(Len(PlannedFrequencies) - 1)) :
           Cardinality(cuts) + 1 = Len(planSpans) /\ Fits(cuts)

\* the two control-flow results
ControlResult(e) == e \in {ErrUserCommandNextScan, ErrUserCommandTerminate}

\* the callers of receiveMessages
DrainSites ==
    {"selectDeviceByName", "selectDeviceBySerial", "applyProfile",
     "setCenterFrequency", "detect", "listen", "listenRDS"}

\* C30: while the program runs the terminate and the skip flag are cleared
\* only by the receiveMessages iteration that returns the matching result;
\* every caller (device selection, profile application, center-frequency
\* handshake, detect window, listen windows) hands that result unchanged to
\* the scan loop of main, which ends the program or moves to the next scan;
\* and a flag that is set while getSdrconnectProperty or setSdrconnectProperty
\* reads, or between two calls, stays set.
C30_ControlResultReachesMain ==
    [][/\ (Cleared("terminate") /\ pc' # "exit") =>
            /\ ReadsMessage /\ site \in DrainSites
            /\ pc' = "ret" /\ err' = ErrUserCommandTerminate
       /\ (Cleared("skip") /\ pc' # "exit") =>
            /\ ReadsMessage /\ site \in DrainSites
            /\ pc' = "ret" /\ err' = ErrUserCommandNextScan
       /\ (ReadsMessage /\ ControlResult(err')) =>
            \/ Cleared("terminate") /\ err' = ErrUserCommandTerminate
            \/ Cleared("skip") /\ err' = ErrUserCommandNextScan
       /\ (pc = "ret" /\ ControlResult(err) /\ FlowStep) =>
            /\ site \in DrainSites
            /\ pc' \in {"mainInitRet", "mainRunRet"}
            /\ err' = err
            /\ sent' = NoMessage
       /\ (pc \in {"mainInitRet", "mainRunRet"} /\ FlowStep) =>
            /\ err = ErrUserCommandTerminate =>
                   pc' = "exit" /\ exitStatus' = "terminated"
            /\ err = ErrUserCommandNextScan =>
                   pc' = "initDevice" /\ scanIdx' = NextScanIdx
       /\ (pc # "recv" /\ pc' # "exit") =>
            \A key \in Keys : Flag(key) => Flag(key)'
      ]_vars

\* the skip result of a drain of runScan has reached main, the flag cleared
C30_Witness ==
    /\ pc = "mainRunRet" /\ err = ErrUserCommandNextScan
    /\ ~ userCommandNextScan

\* setSdrconnectProperty has read an event with the terminate flag set, and
\* the flag is still set
C30_WitnessStaysSet ==
    /\ pc = "setprop" /\ callMessages > 0
    /\ userCommandTerminate

\* the span of the current scan that holds the plan index idx
SpanOf(idx) ==
    CHOOSE span \in { scanLOSpans[scanIdx][n] : n \in 1..Len(scanLOSpans[scanIdx]) } :
        span.from <= idx /\ idx <= span.to

\* the step sends a VFO set request
SendsVFO ==
    /\ sent'.EventType = "set_property"
    /\ sent'.Property = "device_vfo_frequency"

\* C31: whenever runScan sends the VFO set request for a plan index, the
\* recorded center frequency equals the center of the span that holds the
\* index, at every index of the span, whatever notifications arrived in the
\* earlier detect and listen windows of the span.
C31_CenterRecordedAtEveryIndex ==
    [][SendsVFO =>
          sdrconnectSettings.DeviceCenterFrequency = SpanOf(planPos - 1).frequency
      ]_vars

\* the VFO request of a later index of a span is out while another center
\* frequency than the span's is recorded
C31_Diverged ==
    /\ pc = "recv" /\ site = "detect" /\ callMessages = 0
    /\ planPos - 1 > SpanOf(planPos - 1).from
    /\ sdrconnectSettings.DeviceCenterFrequency # SpanOf(planPos - 1).frequency

\* runScan has returned in the followed call
RunScanReturned ==
    /\ unitFn = "runScan" /\ unitPhase = "run"
    /\ unitOut.runScan = "returned"

\* C32: once runScan has returned, before its plan is exhausted or not, no
\* generator goroutine stands at a channel send that nothing will receive:
\* the goroutine of getScanFrequenciesAndLOFrequencies is not at its send
\* (only the range of runScan receives from its channel), so both goroutines
\* can run to their close(ch).
C32_GeneratorsFinish ==
    RunScanReturned => unitOut.outer # "send"

\* runScan returned on a skip at the first of three frequencies, with both
\* goroutines at a send that has no receiver left, and no step enabled
C32_Leaked ==
    /\ RunScanReturned /\ unitOut.err = ErrUserCommandNextScan
    /\ unitOut.taken = 1
    /\ unitOut.outer = "send"
    /\ unitOut.innerOpen /\ GeneratorContinues(unitArg, unitOut.inner)
    /\ ~ ENABLED UnitNext

\* the step sends an apply-profile request
SendsApplyProfile ==
    /\ pc = "initProfile"
    /\ sent'.EventType = "apply_device_profile"

\* C33: initScan sends an apply-profile request only for a scan that
\* configures a profile name, whichever scans were initialised before it.
C33_ProfileOnlyWhenConfigured ==
    [][SendsApplyProfile => Scans[scanIdx].Profile # ""]_vars

\* the apply-profile request of a scan without profile is out, after the
\* profile of an earlier scan was recorded
C33_EmptyProfileApplied ==
    /\ pc = "recv" /\ site = "applyProfile" /\ callMessages = 0
    /\ Scans[scanIdx].Profile = ""
    /\ sdrconnectSettings.Profile # ""

====
